---- MODULE Spec2Model ----
(***************************************************************************)
(* A model of scvi.model.TOTALVI (src/src/scvi/model/_totalvi.py): the     *)
(* posterior estimation routines, the empirical protein background prior,  *)
(* the constructor's use of it, and train.                                 *)
(*                                                                         *)
(* Python values are tagged records [t |-> <type>, v |-> <value>] so that  *)
(* None, numbers, strings and lists can be told apart, as isinstance does. *)
(* Real numbers are exact rationals <<numerator, denominator>> in lowest   *)
(* terms.  Tensors are nested sequences indexed from 1 in axis order.      *)
(***************************************************************************)
EXTENDS Integers, Sequences, FiniteSets, TLC

(***************************************************************************)
(* Bounds of the model.                                                    *)
(***************************************************************************)
NCells == 3          \* cells of the dataset (adata.n_obs)
NGenes == 2          \* registered genes
NProteins == 2       \* registered proteins of the posterior routines' dataset
NBatch == 2          \* batch categories
MaxTB == 2           \* longest transform_batch list
MaxSamples == 2      \* largest n_samples
MaxBatchSize == 2    \* largest minibatch size
MaxIdx == 2          \* longest explicit indices sequence

(***************************************************************************)
(* Exact rational arithmetic.                                              *)
(***************************************************************************)
RECURSIVE GCD(_, _)
GCD(a, b) == IF b = 0 THEN a ELSE GCD(b, a % b)

Abs(x) == IF x < 0 THEN -x ELSE x

Rat(n, d) ==
    LET g == GCD(Abs(n), Abs(d))
        s == IF d < 0 THEN -1 ELSE 1
    IN  <<(s * n) \div g, (s * d) \div g>>

RInt(n) == <<n, 1>>
RZero == <<0, 1>>
ROne == <<1, 1>>
RAdd(x, y) ==
    LET g == GCD(x[2], y[2])
    IN  Rat(x[1] * (y[2] \div g) + y[1] * (x[2] \div g), (x[2] \div g) * y[2])
RSub(x, y) == RAdd(x, <<-y[1], y[2]>>)
RMul(x, y) ==
    LET a == Rat(x[1], y[2])
        b == Rat(y[1], x[2])
    IN  <<a[1] * b[1], a[2] * b[2]>>
RDiv(x, y) == RMul(x, Rat(y[2], y[1]))
RLeq(x, y) ==
    LET g == GCD(x[2], y[2])
    IN  x[1] * (y[2] \div g) <= y[1] * (x[2] \div g)

RECURSIVE RSum(_)
RSum(s) ==
    IF s = <<>> THEN RZero
    ELSE IF Len(s) <= 8 THEN RAdd(s[1], RSum(Tail(s)))
    ELSE LET h == Len(s) \div 2
         IN  RAdd(RSum(SubSeq(s, 1, h)), RSum(SubSeq(s, h + 1, Len(s))))

(***************************************************************************)
(* Python values.                                                          *)
(***************************************************************************)
PyNone == [t |-> "none", v |-> 0]
PyInt(i) == [t |-> "int", v |-> i]
PyStr(i) == [t |-> "str", v |-> i]
PyList(s) == [t |-> "list", v |-> s]
PyBool(b) == [t |-> "bool", v |-> IF b THEN 1 ELSE 0]

RECURSIVE SeqsUpTo(_, _)
SeqsUpTo(S, n) ==
    IF n = 0 THEN {<<>>}
    ELSE LET shorter == SeqsUpTo(S, n - 1)
         IN  shorter \cup {Append(s, x) : s \in shorter, x \in S}

Range(s) == {s[i] : i \in DOMAIN s}

(***************************************************************************)
(* The registered dataset: cells by position, their observed batch, the    *)
(* names of cells, genes and proteins, and the batch categories.           *)
(***************************************************************************)
Cells == 0 .. (NCells - 1)
Genes == 1 .. NGenes
Proteins == 1 .. NProteins
BatchCodes == 0 .. (NBatch - 1)

ObsBatch(c) == c % NBatch
ObsName(c) == [kind |-> "obs", i |-> c]
VarNames == [g \in Genes |-> [kind |-> "gene", i |-> g]]
ProteinNames == [p \in Proteins |-> [kind |-> "protein", i |-> p]]

\* categorical_mapping of the batch field: position = code, entry = category.
\* A dataset's categories are all integers or all strings (cattype).
BatchMapping(cattype) == [i \in 1 .. NBatch |-> [t |-> cattype, v |-> 10 + i]]
Category(cattype, code) == BatchMapping(cattype)[code + 1]

\* the model object's own state (self.*): the module's learned parameters
\* and what the constructor stored
VARIABLE model

(***************************************************************************)
(* The module (TOTALVAE): forward() for a minibatch of cells mb, n_samples *)
(* n and transform batch b returns the likelihood parameters.  With n = 1  *)
(* a tensor has shape (cells, features), with n > 1 (samples, cells,       *)
(* features).  The parameter tables below stand for the learned            *)
(* parameters, which are part of the model object (model.params).          *)
(***************************************************************************)
EffBatch(c, b) == IF b.t = "none" THEN ObsBatch(c) ELSE b.v
Library(c, s) == 2 + ((c + s) % 3)
GeneWeight(c, b, s, g) ==
    1 + ((c + 2 * EffBatch(c, b) + s + 3 * g + model.params) % 4)
PxScale(c, b, s, g) ==
    Rat(GeneWeight(c, b, s, g),
        RSum([h \in Genes |-> RInt(GeneWeight(c, b, s, h))])[1])
PxRate(c, b, s, g) == RMul(RInt(Library(c, s)), PxScale(c, b, s, g))
PyMixing(c, b, s, p) == ((c + 2 * EffBatch(c, b) + 3 * s + p) % 5) - 2
PyRateFore(c, b, s, p) == RInt(1 + ((c + EffBatch(c, b) + s + 2 * p) % 3))
PyRateBack(c, b, s, p) ==
    RInt(1 + ((c + EffBatch(c, b) + p + model.params) % 2))

\* one entry of the named output
Output(name, c, b, s, f) ==
    CASE name = "px_rate" -> PxRate(c, b, s, f)
      [] name = "px_scale" -> PxScale(c, b, s, f)
      [] name = "py_mixing" -> PyMixing(c, b, s, f)
      [] name = "py_rate_fore" -> PyRateFore(c, b, s, f)
      [] OTHER -> PyRateBack(c, b, s, f)

Tensor2(name, mb, b, s, nf) ==
    [i \in 1 .. Len(mb) |-> [f \in 1 .. nf |-> Output(name, mb[i], b, s, f)]]
Tensor(name, mb, n, b, nf) ==
    IF n > 1 THEN [s \in 1 .. n |-> Tensor2(name, mb, b, s, nf)]
    ELSE Tensor2(name, mb, b, 1, nf)

ModuleForward(mb, n, b) ==
    [px_rate |-> Tensor("px_rate", mb, n, b, NGenes),
     px_scale |-> Tensor("px_scale", mb, n, b, NGenes),
     py_mixing |-> Tensor("py_mixing", mb, n, b, NProteins),
     py_rate_fore |-> Tensor("py_rate_fore", mb, n, b, NProteins),
     py_rate_back |-> Tensor("py_rate_back", mb, n, b, NProteins)]

(***************************************************************************)
(* Tensor operations; n > 1 means a leading sample axis.                   *)
(***************************************************************************)

\* x[..., mask]: mask is slice(None) or a list of booleans over the last axis
SliceNone == [t |-> "slice", v |-> <<>>]
BoolMask(names, wanted) ==
    [t |-> "list", v |-> [i \in DOMAIN names |-> names[i] \in wanted]]
RECURSIVE SelectSeq2(_, _)
SelectSeq2(row, keep) ==
    IF row = <<>> THEN <<>>
    ELSE (IF Head(keep) THEN <<Head(row)>> ELSE <<>>)
         \o SelectSeq2(Tail(row), Tail(keep))
Index(row, mask) == IF mask.t = "slice" THEN row ELSE SelectSeq2(row, mask.v)

\* torch.zeros_like(x)[..., mask], stacked n times when n > 1
Zeros(ncells, nf, mask, n) ==
    LET z2 == [i \in 1 .. ncells |-> Index([f \in 1 .. nf |-> RZero], mask)]
    IN  IF n > 1 THEN [s \in 1 .. n |-> z2] ELSE z2

\* a concatenation that puts each new minibatch first
RECURSIVE CatReversed(_)
CatReversed(list) ==
    IF list = <<>> THEN <<>> ELSE CatReversed(Tail(list)) \o Head(list)

\* a result that keeps the last minibatch alone
LastOnly(list) == IF list = <<>> THEN <<>> ELSE list[Len(list)]

\* torch.cat of a list of tensors along the cell axis
RECURSIVE Cat0(_)
Cat0(list) == IF list = <<>> THEN <<>> ELSE Head(list) \o Cat0(Tail(list))
Cat1(list, n) == [s \in 1 .. n |-> Cat0([k \in DOMAIN list |-> list[k][s]])]
\* permute(1, 2, 0): (samples, cells, features) -> (cells, features, samples)
Permute120(A) ==
    [c \in DOMAIN A[1] |-> [f \in DOMAIN A[1][c] |->
        [s \in DOMAIN A |-> A[s][c][f]]]]
\* torch.mean(A, dim=-1) of a (cells, features, samples) tensor
MeanLast(A) ==
    [c \in DOMAIN A |-> [f \in DOMAIN A[c] |->
        RDiv(RSum(A[c][f]), RInt(Len(A[c][f])))]]

(***************************************************************************)
(* State.                                                                  *)
(***************************************************************************)
VARIABLES
    args,             \* the arguments of the call being modelled
    pc,               \* "start", "loop", "done" or "raised"
    indices,          \* the resolved cell indices
    return_numpy,     \* return_numpy after the multi-sample override
    transform_batch,  \* the list of batch codes iterated over
    pos,              \* cells the data loader has yielded so far
    scale_list_gene,  \* per-minibatch gene results
    scale_list_pro,   \* per-minibatch protein results
    py_mixings,       \* per-minibatch mixing probabilities
    libraries,        \* per-minibatch library sizes
    corr_mats,        \* per-condition correlation matrices
    calls,            \* the module invocations made, in order
    draws,            \* the Bernoulli mixing draws, per minibatch and condition
    warned,           \* the warnings emitted, in order
    ret,              \* the value returned, or the exception raised
    cargs,            \* the constructor's (or the prior estimator's) inputs
    next_b,           \* the next category code of the prior estimator's loop
    batch_avg_mus,    \* per-category prior means so far
    batch_avg_scales, \* per-category prior scales so far
    fits,             \* per category, the mixture fits made for it
    estimator_calls,  \* invocations of _get_totalvi_protein_priors
    module,           \* what the constructor handed to the module
    de,               \* the frame of differential_expression, when it runs
    rna_list,         \* per-minibatch gene samples
    pro_list,         \* per-minibatch protein samples
    background_mean,  \* per-minibatch background rates
    history,          \* the routines called on the model so far, in order
    sampled_cells,    \* the cells drawn for the category fitted last
    mus,              \* the per-cell means of the category fitted last
    scales,           \* the per-cell scales of the category fitted last
    heap,             \* the dict objects alive during train, by identity
    plan_kwargs,      \* train's local plan_kwargs: an object identity or None
    training_plan,    \* the keyword arguments the training plan was built with
    runner            \* the keyword arguments the train runner was built with

vars == <<args, pc, indices, return_numpy, transform_batch, pos,
          scale_list_gene, scale_list_pro, py_mixings, libraries, corr_mats,
          calls, draws, warned, ret, cargs, next_b, batch_avg_mus,
          batch_avg_scales, fits, estimator_calls, module, model, de,
          rna_list, pro_list, background_mean, history, sampled_cells, mus,
          scales, heap, plan_kwargs, training_plan, runner>>

fitVars == <<sampled_cells, mus, scales>>
trainVars == <<heap, plan_kwargs, training_plan, runner>>
lateVars == <<fitVars, trainVars>>
moreVars == <<model, de, rna_list, pro_list, background_mean, history>>
ctorVars == <<cargs, next_b, batch_avg_mus, batch_avg_scales, fits,
              estimator_calls, module>>
postVars == <<args, indices, return_numpy, transform_batch, pos,
              scale_list_gene, scale_list_pro, py_mixings, libraries,
              corr_mats, calls, draws>>

NoValue == [type |-> "none"]
Raise(exc) == [type |-> "raise", exc |-> exc]
NdArray(values) ==
    [type |-> "ndarray", values |-> values, columns |-> <<>>, index |-> <<>>]
DataFrame(values, columns, index) ==
    [type |-> "DataFrame", values |-> values, columns |-> columns,
     index |-> index]

\* the model object after construction and training: the module's learned
\* parameters (one number stands for them) and what __init__ stored
BuiltModel(params) ==
    [params |-> params, protein_state_registry |-> ProteinNames,
     use_adversarial_classifier |-> FALSE, modalities |-> PyNone,
     init_params |-> [n_latent |-> 20]]

\* a module invocation that updates the parameters
TrainingStep(mdl) == [mdl EXCEPT !.params = 1 - @]

\* the model object after module.forward or module.sample of an estimation
\* routine: inference mode, nothing is written
Inference(mdl) == mdl

DefaultArgs ==
    [routine |-> "get_normalized_expression", data |-> "ok", cattype |-> "str",
     indices |-> PyNone, n_samples_overall |-> PyNone,
     transform_batch |-> PyNone, gene_list |-> PyNone, protein_list |-> PyNone,
     library_size |-> PyInt(1), n_samples |-> 1,
     sample_protein_mixing |-> FALSE, scale_protein |-> FALSE,
     include_protein_background |-> FALSE, batch_size |-> MaxBatchSize,
     return_mean |-> TRUE, return_numpy |-> PyNone, give_mean |-> TRUE,
     is_trained |-> TRUE, rna_size_factor |-> 1000,
     correlation_type |-> "spearman", log_transform |-> FALSE,
     adata |-> "none", gene_likelihood |-> "nb", use_field |-> PyNone,
     protein_prior_count |-> PyNone]

(***************************************************************************)
(* Steps shared by the posterior estimation routines.                      *)
(***************************************************************************)
\* a validation that only asks for registered protein data
OnlyRegistration(data) ==
    [raised |-> data = "no_protein",
     warned |-> IF data = "not_counts" THEN <<"UserWarning: counts">> ELSE <<>>]


\* _validate_anndata: protein data must be registered with the registered
\* number of columns; data that is not counts only warns.
ValidateAnndata(data) ==
    [raised |-> data \in {"no_protein", "n_proteins_differ"},
     warned |-> IF data = "not_counts" THEN <<"UserWarning: counts">> ELSE <<>>]

\* isinstance(x, collections.abc.Iterable): lists and strings are iterable
IsIterable(x) == x.t \in {"list", "str"}

\* a wrapping that loses the value
WrapAsNone(tb) == IF ~IsIterable(tb) THEN PyList(<<PyNone>>) ELSE tb

\* if not isinstance(transform_batch, IterableClass): transform_batch = [..]
WrapTransformBatch(tb) == IF ~IsIterable(tb) THEN PyList(<<tb>>) ELSE tb

\* scvi.model._utils._get_batch_code_from_category: a value that is not a
\* list is taken as a one-element list; None stays None, a category becomes
\* its code, anything else raises ValueError.
GetBatchCodeFromCategory(cattype, category) ==
    LET cats == IF category.t = "list" THEN category.v ELSE <<category>>
        known == Range(BatchMapping(cattype))
        bad == \E i \in DOMAIN cats : cats[i].t # "none" /\ cats[i] \notin known
        code(cat) == CHOOSE k \in BatchCodes : Category(cattype, k) = cat
    IN  [raised |-> bad,
         codes |-> IF bad THEN <<>>
                   ELSE [i \in DOMAIN cats |->
                            IF cats[i].t = "none" THEN PyNone
                            ELSE PyInt(code(cats[i]))]]

\* an override that warns and leaves return_numpy as given
WarnWithoutOverride(n_samples, return_mean, rn) ==
    [return_numpy |-> rn,
     warned |-> IF n_samples > 1 /\ return_mean = FALSE /\ rn = PyBool(FALSE)
                THEN <<"UserWarning: return_numpy">> ELSE <<>>]

\* the multi-sample override of return_numpy and its warning
OverrideReturnNumpy(n_samples, return_mean, rn) ==
    IF n_samples > 1 /\ return_mean = FALSE
    THEN [return_numpy |-> PyBool(TRUE),
          warned |-> IF rn = PyBool(FALSE)
                     THEN <<"UserWarning: return_numpy">> ELSE <<>>]
    ELSE [return_numpy |-> rn, warned |-> <<>>]

\* indices = np.arange(adata.n_obs) when indices is None
ResolveIndices(ind) ==
    IF ind.t = "none" THEN [i \in 1 .. NCells |-> i - 1] ELSE ind.v

\* np.random.choice(indices, n_samples_overall): any sequence of that length
RandomChoice(ind, n) == {s \in SeqsUpTo(Range(ind), n) : Len(s) = n}

\* the data loader yields the indices in order, batch_size cells at a time
Minibatch(ind, p, batch_size) ==
    SubSeq(ind, p + 1, IF p + batch_size > Len(ind) THEN Len(ind)
                       ELSE p + batch_size)

\* the cells of the dataset a routine works on: the model's own dataset
\* when adata is None, otherwise the dataset passed, whose cells are others
CellAt(adata, i) == IF adata = "none" THEN i ELSE NCells + i
CellsOf(adata, ind) == [k \in DOMAIN ind |-> CellAt(adata, ind[k])]
Load(adata, ind, p, batch_size) == CellsOf(adata, Minibatch(ind, p, batch_size))

GeneMask(gene_list) ==
    IF gene_list.t = "none" THEN SliceNone ELSE BoolMask(VarNames, gene_list.v)
ProteinMask(protein_list) ==
    IF protein_list.t = "none" THEN SliceNone
    ELSE BoolMask(ProteinNames, protein_list.v)

Sigmoid(logit) ==
    IF logit <= -2 THEN RZero
    ELSE IF logit >= 2 THEN ROne
    ELSE Rat(logit + 2, 4)

Invocation(mb, n, b) == [cells |-> mb, n_samples |-> n, transform_batch |-> b]

\* torch.nn.functional.normalize(v, p=1, dim=-1): v / max(sum |v|, eps)
NormalizeL1(row) ==
    LET tot == RSum([i \in DOMAIN row |-> Rat(Abs(row[i][1]), row[i][2])])
    IN  IF tot = RZero THEN row ELSE [i \in DOMAIN row |-> RDiv(row[i], tot)]

\* the operations applied across a tensor, each named by a record: to every
\* entry, to every row of the last axis, or to the entries of two tensors
Apply(op, x) ==
    CASE op.f = "sigmoid" -> Sigmoid(x)
      [] op.f = "div" -> RDiv(x, op.k)
      [] OTHER -> RSub(ROne, x)
ApplyRow(op, row) ==
    CASE op.f = "index" -> Index(row, op.mask)
      [] OTHER -> NormalizeL1(row)
Apply2(op, x, y) ==
    CASE op.f = "add" -> RAdd(x, y)
      [] op.f = "mul" -> RMul(x, y)
      [] OTHER -> RMul(x, RSub(ROne, y))

Map2(op, A) ==
    [i \in DOMAIN A |-> [j \in DOMAIN A[i] |-> Apply(op, A[i][j])]]
MapT(op, A, n) ==
    IF n > 1 THEN [s \in DOMAIN A |-> Map2(op, A[s])] ELSE Map2(op, A)
Zip2(op, A, B) ==
    [i \in DOMAIN A |-> [j \in DOMAIN A[i] |-> Apply2(op, A[i][j], B[i][j])]]
ZipT(op, A, B, n) ==
    IF n > 1 THEN [s \in DOMAIN A |-> Zip2(op, A[s], B[s])] ELSE Zip2(op, A, B)
Rows2(op, A) == [i \in DOMAIN A |-> ApplyRow(op, A[i])]
RowsT(op, A, n) ==
    IF n > 1 THEN [s \in DOMAIN A |-> Rows2(op, A[s])] ELSE Rows2(op, A)

(***************************************************************************)
(* get_normalized_expression.                                              *)
(***************************************************************************)
GNE == "get_normalized_expression"

\* torch.distributions.Bernoulli(probs).sample(): every tensor of zeros and
\* ones a draw can give (probability 0 never gives 1, probability 1 never 0)
Support(p) ==
    IF p = RZero THEN {RZero} ELSE IF p = ROne THEN {ROne} ELSE {RZero, ROne}

\* the sequences that take their i-th entry from the i-th set
RECURSIVE Product(_)
Product(sets) ==
    IF sets = <<>> THEN {<<>>}
    ELSE {<<x>> \o rest : x \in Head(sets), rest \in Product(Tail(sets))}

BernoulliSample2(P) ==
    Product([i \in DOMAIN P |->
                 Product([f \in DOMAIN P[i] |-> Support(P[i][f])])])
BernoulliSample(P, n) ==
    IF n > 1 THEN Product([s \in DOMAIN P |-> BernoulliSample2(P[s])])
    ELSE BernoulliSample2(P)

\* the gene term added for one condition
GeneTerm(out, library_size, gene_mask, n) ==
    RowsT([f |-> "index", mask |-> gene_mask],
          IF library_size.t = "latent" THEN out.px_rate ELSE out.px_scale, n)

\* a protein term that is subset before it is scaled
SubsetBeforeScaling(out, mixing, include_background, scale, protein_mask, n) ==
    LET fore == ZipT([f |-> "fore"],
                     out.py_rate_fore, mixing, n)
        val == IF include_background
               THEN ZipT([f |-> "add"], fore,
                         ZipT([f |-> "mul"], out.py_rate_back, mixing, n), n)
               ELSE fore
        subset == RowsT([f |-> "index", mask |-> protein_mask], val, n)
    IN  IF scale THEN RowsT([f |-> "normalize"], subset, n) ELSE subset

\* a protein term whose background is weighted by the mixing probability,
\* whatever was drawn for the foreground
BackgroundByProbs(out, mixing, include_background, scale, protein_mask, n) ==
    LET fore == ZipT([f |-> "fore"],
                     out.py_rate_fore, mixing, n)
        val == IF include_background
               THEN ZipT([f |-> "add"], fore,
                         ZipT([f |-> "mul"], out.py_rate_back,
                              MapT([f |-> "sigmoid"], out.py_mixing, n), n), n)
               ELSE fore
        scaled == IF scale THEN RowsT([f |-> "normalize"], val, n) ELSE val
    IN  RowsT([f |-> "index", mask |-> protein_mask], scaled, n)

\* the protein term added for one condition, given the mixing used
ProteinTerm(out, mixing, include_background, scale, protein_mask, n) ==
    LET fore == ZipT([f |-> "fore"],
                     out.py_rate_fore, mixing, n)
        val == IF include_background
               THEN ZipT([f |-> "add"], fore,
                         ZipT([f |-> "mul"], out.py_rate_back, mixing, n), n)
               ELSE fore
        scaled == IF scale THEN RowsT([f |-> "normalize"], val, n) ELSE val
    IN  RowsT([f |-> "index", mask |-> protein_mask], scaled, n)

\* acc += term, over the conditions in list order
RECURSIVE AddTerms(_, _, _)
AddTerms(acc, terms, n) ==
    IF terms = <<>> THEN acc
    ELSE AddTerms(ZipT([f |-> "add"], acc, Head(terms), n), Tail(terms), n)

\* a division by the number of distinct conditions
DivideByDistinct(acc, tb, n) ==
    MapT([f |-> "div", k |-> RInt(Cardinality(Range(tb)))], acc, n)

\* acc /= len(transform_batch)
DivideByConditions(acc, tb, n) ==
    MapT([f |-> "div", k |-> RInt(Len(tb))], acc, n)

\* a concatenation that leaves the samples on the first axis
CatOnly(list, n) == IF n > 1 THEN Cat1(list, n) ELSE Cat0(list)

\* the concatenation of the per-minibatch results
Concatenate(list, n) ==
    IF n > 1 THEN Permute120(Cat1(list, n)) ELSE Cat0(list)

ReduceSamples(A, return_mean, n) ==
    IF return_mean /\ n > 1 THEN MeanLast(A) ELSE A

ObsNames(ind) == [i \in DOMAIN ind |-> ObsName(ind[i])]

UnchangedLists ==
    UNCHANGED <<scale_list_gene, scale_list_pro, py_mixings, libraries,
                corr_mats, calls, draws>>

RaiseAtStart(exc, w) ==
    /\ pc' = "raised"
    /\ ret' = Raise(exc)
    /\ warned' = warned \o w
    /\ UNCHANGED <<args, indices, return_numpy, transform_batch, pos>>
    /\ UnchangedLists

EnterLoop(idx, rn, tb, w) ==
    /\ pc' = "loop"
    /\ indices' = idx
    /\ return_numpy' = rn
    /\ transform_batch' = tb
    /\ pos' = 0
    /\ warned' = warned \o w
    /\ UNCHANGED <<args, ret>>
    /\ UnchangedLists

GneBegin ==
    /\ pc = "start"
    /\ args.routine = GNE
    /\ LET v == ValidateAnndata(args.data)
           o == OverrideReturnNumpy(args.n_samples, args.return_mean,
                                    args.return_numpy)
           tb == GetBatchCodeFromCategory(
                     args.cattype, WrapTransformBatch(args.transform_batch))
           all == ResolveIndices(args.indices)
       IN  IF v.raised THEN RaiseAtStart("ValueError", <<>>)
           ELSE \E idx \in (IF args.n_samples_overall.t = "none" THEN {all}
                            ELSE RandomChoice(all, args.n_samples_overall.v)) :
                   IF tb.raised
                   THEN RaiseAtStart("ValueError", v.warned \o o.warned)
                   ELSE EnterLoop(idx, o.return_numpy, tb.codes,
                                  v.warned \o o.warned)
    /\ UNCHANGED ctorVars
    /\ UNCHANGED moreVars
    /\ UNCHANGED lateVars

GneMinibatch ==
    /\ pc = "loop"
    /\ args.routine = GNE
    /\ pos < Len(indices)
    /\ LET mb == Load(args.adata, indices, pos, args.batch_size)
           n == args.n_samples
           K == DOMAIN transform_batch
           outs == [j \in K |-> ModuleForward(mb, n, transform_batch[j])]
           probs == [j \in K |-> MapT([f |-> "sigmoid"], outs[j].py_mixing, n)]
           gmask == GeneMask(args.gene_list)
           pmask == ProteinMask(args.protein_list)
       IN  \E d \in (IF args.sample_protein_mixing
                     THEN Product([j \in K |-> BernoulliSample(probs[j], n)])
                     ELSE {<<>>}) :
              LET mixing == IF args.sample_protein_mixing THEN d ELSE probs
                  gterms == [j \in K |->
                      GeneTerm(outs[j], args.library_size, gmask, n)]
                  pterms == [j \in K |->
                      ProteinTerm(outs[j], mixing[j],
                                  args.include_protein_background,
                                  args.scale_protein, pmask, n)]
                  px_scale == DivideByConditions(
                      AddTerms(Zeros(Len(mb), NGenes, gmask, n), gterms, n),
                      transform_batch, n)
                  py_scale == DivideByConditions(
                      AddTerms(Zeros(Len(mb), NProteins, pmask, n), pterms, n),
                      transform_batch, n)
              IN  /\ scale_list_gene' = Append(scale_list_gene, px_scale)
                  /\ scale_list_pro' = Append(scale_list_pro, py_scale)
                  /\ calls' = calls \o
                         [j \in K |-> Invocation(mb, n, transform_batch[j])]
                  /\ draws' = Append(draws, d)
                  /\ pos' = pos + Len(mb)
    /\ UNCHANGED <<args, pc, indices, return_numpy, transform_batch,
                   py_mixings, libraries, corr_mats, warned, ret>>
    /\ UNCHANGED ctorVars
    /\ UNCHANGED moreVars
    /\ UNCHANGED lateVars

GneReturn ==
    /\ pc = "loop"
    /\ args.routine = GNE
    /\ pos = Len(indices)
    /\ LET n == args.n_samples
           gene == ReduceSamples(Concatenate(scale_list_gene, n),
                                 args.return_mean, n)
           pro == ReduceSamples(Concatenate(scale_list_pro, n),
                                args.return_mean, n)
       IN  ret' = IF return_numpy.t = "none" \/ return_numpy = PyBool(FALSE)
                  THEN [type |-> "tuple",
                        gene |-> DataFrame(gene,
                            Index(VarNames, GeneMask(args.gene_list)),
                            ObsNames(CellsOf(args.adata, indices))),
                        protein |-> DataFrame(pro,
                            Index(ProteinNames, ProteinMask(args.protein_list)),
                            ObsNames(CellsOf(args.adata, indices)))]
                  ELSE [type |-> "tuple", gene |-> NdArray(gene),
                        protein |-> NdArray(pro)]
    /\ pc' = "done"
    /\ UNCHANGED <<args, indices, return_numpy, transform_batch, pos,
                   scale_list_gene, scale_list_pro, py_mixings, libraries,
                   corr_mats, calls, draws, warned>>
    /\ UNCHANGED ctorVars
    /\ UNCHANGED moreVars
    /\ UNCHANGED lateVars

(***************************************************************************)
(* get_protein_foreground_probability.                                     *)
(***************************************************************************)
GPFP == "get_protein_foreground_probability"

\* torch.sigmoid(py_["mixing"])[..., protein_mask]
MixingTerm(out, protein_mask, n) ==
    RowsT([f |-> "index", mask |-> protein_mask],
          MapT([f |-> "sigmoid"], out.py_mixing, n), n)

\* the mixing probability returned as it is
NoComplement(A, rank3) == A

\* 1 - py_mixings
Complement(A, rank3) ==
    IF rank3
    THEN [c \in DOMAIN A |-> [f \in DOMAIN A[c] |->
            [s \in DOMAIN A[c][f] |-> RSub(ROne, A[c][f][s])]]]
    ELSE Map2([f |-> "complement"], A)

GpfpBegin ==
    /\ pc = "start"
    /\ args.routine = GPFP
    /\ LET v == ValidateAnndata(args.data)
           o == OverrideReturnNumpy(args.n_samples, args.return_mean,
                                    args.return_numpy)
           tb == GetBatchCodeFromCategory(
                     args.cattype, WrapTransformBatch(args.transform_batch))
       IN  IF v.raised THEN RaiseAtStart("ValueError", <<>>)
           ELSE IF tb.raised
           THEN RaiseAtStart("ValueError", v.warned \o o.warned)
           ELSE EnterLoop(ResolveIndices(args.indices), o.return_numpy,
                          tb.codes, v.warned \o o.warned)
    /\ UNCHANGED ctorVars
    /\ UNCHANGED moreVars
    /\ UNCHANGED lateVars

GpfpMinibatch ==
    /\ pc = "loop"
    /\ args.routine = GPFP
    /\ pos < Len(indices)
    /\ LET mb == Load(args.adata, indices, pos, args.batch_size)
           n == args.n_samples
           K == DOMAIN transform_batch
           pmask == ProteinMask(args.protein_list)
           terms == [j \in K |->
               MixingTerm(ModuleForward(mb, n, transform_batch[j]), pmask, n)]
           py_mixing == DivideByConditions(
               AddTerms(Zeros(Len(mb), NProteins, pmask, n), terms, n),
               transform_batch, n)
       IN  /\ py_mixings' = Append(py_mixings, py_mixing)
           /\ calls' = calls \o
                  [j \in K |-> Invocation(mb, n, transform_batch[j])]
           /\ pos' = pos + Len(mb)
    /\ UNCHANGED <<args, pc, indices, return_numpy, transform_batch,
                   scale_list_gene, scale_list_pro, libraries, corr_mats,
                   draws, warned, ret>>
    /\ UNCHANGED ctorVars
    /\ UNCHANGED moreVars
    /\ UNCHANGED lateVars

GpfpReturn ==
    /\ pc = "loop"
    /\ args.routine = GPFP
    /\ pos = Len(indices)
    /\ LET n == args.n_samples
           mix == ReduceSamples(Concatenate(py_mixings, n),
                                args.return_mean, n)
           fg == Complement(mix, n > 1 /\ ~args.return_mean)
       IN  ret' = IF return_numpy = PyBool(TRUE) THEN NdArray(fg)
                  ELSE DataFrame(fg,
                           Index(ProteinNames, ProteinMask(args.protein_list)),
                           ObsNames(CellsOf(args.adata, indices)))
    /\ pc' = "done"
    /\ UNCHANGED <<args, indices, return_numpy, transform_batch, pos,
                   scale_list_gene, scale_list_pro, py_mixings, libraries,
                   corr_mats, calls, draws, warned>>
    /\ UNCHANGED ctorVars
    /\ UNCHANGED moreVars
    /\ UNCHANGED lateVars

(***************************************************************************)
(* get_latent_library_size.                                                *)
(***************************************************************************)
GLLS == "get_latent_library_size"

\* the library posterior of a cell: exp(ql.loc + 0.5 * ql.scale ** 2), or
\* the sampled library; exp is kept symbolic
QlLoc(c) == RInt(1 + (c % 3))
QlScale(c) == Rat(1 + (c % 2), 2)
LibraryTerm(c, give_mean) ==
    IF give_mean
    THEN [op |-> "exp",
          arg |-> RAdd(QlLoc(c),
                       RMul(Rat(1, 2), RMul(QlScale(c), QlScale(c))))]
    ELSE [op |-> "library_gene", arg |-> RInt(Library(c, 1))]

GllsBegin ==
    /\ pc = "start"
    /\ args.routine = GLLS
    /\ LET v == ValidateAnndata(args.data)
       IN  IF ~args.is_trained THEN RaiseAtStart("RuntimeError", <<>>)
           ELSE IF v.raised THEN RaiseAtStart("ValueError", <<>>)
           ELSE EnterLoop(ResolveIndices(args.indices), args.return_numpy,
                          <<>>, v.warned)
    /\ UNCHANGED ctorVars
    /\ UNCHANGED moreVars
    /\ UNCHANGED lateVars

GllsMinibatch ==
    /\ pc = "loop"
    /\ args.routine = GLLS
    /\ pos < Len(indices)
    /\ LET mb == Load(args.adata, indices, pos, args.batch_size)
           library == [i \in DOMAIN mb |-> <<LibraryTerm(mb[i], args.give_mean)>>]
       IN  /\ libraries' = Append(libraries, library)
           /\ calls' = Append(calls, Invocation(mb, 1, PyNone))
           /\ pos' = pos + Len(mb)
    /\ UNCHANGED <<args, pc, indices, return_numpy, transform_batch,
                   scale_list_gene, scale_list_pro, py_mixings, corr_mats,
                   draws, warned, ret>>
    /\ UNCHANGED ctorVars
    /\ UNCHANGED moreVars
    /\ UNCHANGED lateVars

GllsReturn ==
    /\ pc = "loop"
    /\ args.routine = GLLS
    /\ pos = Len(indices)
    /\ ret' = NdArray(Cat0(libraries))
    /\ pc' = "done"
    /\ UNCHANGED <<args, indices, return_numpy, transform_batch, pos,
                   scale_list_gene, scale_list_pro, py_mixings, libraries,
                   corr_mats, calls, draws, warned>>
    /\ UNCHANGED ctorVars
    /\ UNCHANGED moreVars
    /\ UNCHANGED lateVars

(***************************************************************************)
(* _get_denoised_samples and get_feature_correlation_matrix.  A random     *)
(* draw is a symbolic term naming its distribution and its position; the   *)
(* correlation of a matrix is a symbolic term over that matrix.            *)
(***************************************************************************)
GFCM == "get_feature_correlation_matrix"

PxR(g) == RInt(1 + g)
PyR(p) == RInt(2 + p)

\* Gamma(r, (1 - p) / p).sample() with p = rate / (rate + r)
GammaDraw(rate, r, id) ==
    [op |-> "gamma", concentration |-> r, rate |-> RDiv(r, rate), id |-> id]
BernoulliDraw(prob, id) == [op |-> "bernoulli", probs |-> prob, id |-> id]

\* an entry whose column is masked whether it is a gene or a protein
MaskEveryColumn(c, b, s, f, rna_size_factor, id) ==
    [op |-> "mul",
     a |-> IF f <= NGenes
           THEN GammaDraw(RMul(RInt(rna_size_factor), PxScale(c, b, s, f)),
                          PxR(f), id)
           ELSE GammaDraw(PyRateFore(c, b, s, f - NGenes), PyR(f - NGenes), id),
     b |-> [op |-> "1-",
            a |-> BernoulliDraw(
                      IF f <= NGenes THEN Rat(1, 2)
                      ELSE Sigmoid(PyMixing(c, b, s, f - NGenes)), id)]]

\* one entry of data after the background is made 0: feature f <= NGenes is
\* a gene, the others are proteins
DenoisedEntry(c, b, s, f, rna_size_factor, id) ==
    IF f <= NGenes
    THEN GammaDraw(RMul(RInt(rna_size_factor), PxScale(c, b, s, f)),
                   PxR(f), id)
    ELSE [op |-> "mul",
          a |-> GammaDraw(PyRateFore(c, b, s, f - NGenes), PyR(f - NGenes), id),
          b |-> [op |-> "1-",
                 a |-> BernoulliDraw(Sigmoid(PyMixing(c, b, s, f - NGenes)),
                                     id)]]

\* the number an entry is once its draws are made: gamma is the value of its
\* Gamma draw, indicator the value of its Bernoulli draw
RECURSIVE Realize(_, _, _)
Realize(e, gamma, indicator) ==
    CASE e.op = "gamma" -> gamma
      [] e.op = "bernoulli" -> indicator
      [] e.op = "1-" -> RSub(ROne, Realize(e.a, gamma, indicator))
      [] OTHER -> RMul(Realize(e.a, gamma, indicator),
                       Realize(e.b, gamma, indicator))

\* the whole pass of _get_denoised_samples for transform batch b: the
\* invocations made and the array returned, (cells, features, samples)
DenoisedCalls(ind, batch_size, n, b) ==
    LET nmb == (Len(ind) + batch_size - 1) \div batch_size
    IN  [k \in 1 .. nmb |->
            Invocation(Minibatch(ind, (k - 1) * batch_size, batch_size), n, b)]
GetDenoisedSamples(ind, n, rna_size_factor, b, j) ==
    [i \in DOMAIN ind |-> [f \in 1 .. (NGenes + NProteins) |->
        [s \in 1 .. n |->
            DenoisedEntry(ind[i], b, s, f, rna_size_factor, <<j, i, f, s>>)]]]

\* a flattening that takes the first sample of every cell for each block
FirstSampleOnly(data, n) ==
    [r \in 1 .. (Len(data) * n) |->
        [f \in DOMAIN data[((r - 1) % Len(data)) + 1] |->
            data[((r - 1) % Len(data)) + 1][f][1]]]

\* flattened[shape[0] * i : shape[0] * (i + 1)] = denoised_data[:, :, i]
Flatten(data, n) ==
    [r \in 1 .. (Len(data) * n) |->
        LET s == ((r - 1) \div Len(data)) + 1
            c == ((r - 1) % Len(data)) + 1
        IN  [f \in DOMAIN data[c] |-> data[c][f][s]]]

LogTransform(flat) ==
    [r \in DOMAIN flat |-> [f \in DOMAIN flat[r] |->
        IF f <= NGenes THEN [op |-> "log(x+1e-8)", a |-> flat[r][f]]
        ELSE [op |-> "log1p", a |-> flat[r][f]]]]

Correlation(kind, flat) ==
    [op |-> IF kind = "pearson" THEN "corrcoef" ELSE "spearmanr", a |-> flat]

\* what _validate_anndata finds in the model's own dataset: the dataset of
\* the call when adata is None, a valid one otherwise
OwnData(a) == IF a.adata = "none" THEN a.data ELSE "ok"

GfcmBegin ==
    /\ pc = "start"
    /\ args.routine = GFCM
    /\ LET v == ValidateAnndata(args.data)
           tb == GetBatchCodeFromCategory(
                     args.cattype, WrapTransformBatch(args.transform_batch))
       IN  IF v.raised THEN RaiseAtStart("ValueError", <<>>)
           ELSE IF tb.raised THEN RaiseAtStart("ValueError", v.warned)
           ELSE EnterLoop(ResolveIndices(args.indices), args.return_numpy,
                          tb.codes, v.warned)
    /\ UNCHANGED ctorVars
    /\ UNCHANGED moreVars
    /\ UNCHANGED lateVars

\* one iteration of "for b in transform_batch"
GfcmCondition ==
    /\ pc = "loop"
    /\ args.routine = GFCM
    /\ Len(corr_mats) < Len(transform_batch)
    /\ LET j == Len(corr_mats) + 1
           b == transform_batch[j]
           n == args.n_samples
           \* adata is not passed on: _get_denoised_samples validates and
           \* loads the model's own dataset
           v == ValidateAnndata(OwnData(args))
           own == CellsOf("none", indices)
           data == GetDenoisedSamples(own, n, args.rna_size_factor, b, j)
           flat == Flatten(data, n)
           used == IF args.log_transform THEN LogTransform(flat) ELSE flat
           made == DenoisedCalls(own, args.batch_size, n, b)
       IN  /\ calls' = calls \o (IF n > 1 THEN made ELSE SubSeq(made, 1, 1))
           /\ warned' = warned \o v.warned
           /\ IF n > 1
              THEN /\ corr_mats' = Append(corr_mats,
                                      Correlation(args.correlation_type, used))
                   /\ UNCHANGED <<pc, ret>>
              ELSE \* data[:, :, x.shape[1]:] of a 2-d array
                   /\ pc' = "raised"
                   /\ ret' = Raise("IndexError")
                   /\ UNCHANGED corr_mats
    /\ UNCHANGED <<args, indices, return_numpy, transform_batch, pos,
                   scale_list_gene, scale_list_pro, py_mixings, libraries,
                   draws>>
    /\ UNCHANGED ctorVars
    /\ UNCHANGED moreVars
    /\ UNCHANGED lateVars

GfcmReturn ==
    /\ pc = "loop"
    /\ args.routine = GFCM
    /\ Len(corr_mats) = Len(transform_batch)
    /\ LET names == VarNames \o ProteinNames
       IN  ret' = DataFrame([op |-> "mean", a |-> corr_mats], names, names)
    /\ pc' = "done"
    /\ UNCHANGED <<args, indices, return_numpy, transform_batch, pos,
                   scale_list_gene, scale_list_pro, py_mixings, libraries,
                   corr_mats, calls, draws, warned>>
    /\ UNCHANGED ctorVars
    /\ UNCHANGED moreVars
    /\ UNCHANGED lateVars

(***************************************************************************)
(* The constructor (TOTALVI.__init__) and the empirical prior estimator    *)
(* (_get_totalvi_protein_priors).  cargs holds what the call is given and  *)
(* what the registered dataset looks like:                                 *)
(*   entry       "constructor", or "estimator" for a direct call           *)
(*   n_proteins  the number of registered proteins                         *)
(*   mask        the registry's protein batch mask: per category code the  *)
(*               set of proteins marked present, or none                   *)
(*   has_panel   whether summary_stats holds "n_panel"                     *)
(*   groups      per batch code, the cells assigned to it, each cell given *)
(*               by its profile                                            *)
(*   panel       per panel code, the cells assigned to it (when has_panel) *)
(*   data        "ok", or "not_counts" for protein values that are not     *)
(*               nonnegative integers                                      *)
(*   n_cells     the number of cells sampled per category                  *)
(***************************************************************************)
EmpiricalPriorThreshold == 10
MinUsableProteins == 5
DefaultNCells == 100
NComponents == 2

\* a nonnegative real kept by its square: np.sqrt and np.square are exact
Sqrt(q) == [sq |-> q]
Square(r) == r.sq
PlaceholderScale == Sqrt(Rat(1, 400))

NoMask == [t |-> "none", v |-> <<>>]
Mask(sets) == [t |-> "mask", v |-> sets]

LatentPosterior == "latent_posterior_parameters"

DefaultCtorArgs ==
    [entry |-> "constructor", empirical_protein_background_prior |-> PyNone,
     override_missing_proteins |-> FALSE, minified_data_type |-> "none",
     n_proteins |-> EmpiricalPriorThreshold + 1, mask |-> NoMask,
     has_panel |-> FALSE, panel |-> <<>>, n_batch |-> NBatch,
     groups |-> [b \in 1 .. NBatch |-> <<"low_first">>], data |-> "ok",
     n_cells |-> DefaultNCells]

\* bool(x) of a flag that is None, a bool or a string
Truthy(x) ==
    CASE x.t = "none" -> FALSE
      [] x.t = "bool" -> x.v = 1
      [] x.t = "str" -> x.v # 0
      [] OTHER -> x.v # 0

\* a threshold that lets the boundary count in
EmpPriorFromThreshold(flag, n_proteins) ==
    IF flag # PyNone THEN flag
    ELSE PyBool(n_proteins >= EmpiricalPriorThreshold)

\* emp_prior = flag if flag is not None else (n_proteins > 10)
EmpPrior(flag, n_proteins) ==
    IF flag # PyNone THEN flag
    ELSE PyBool(n_proteins > EmpiricalPriorThreshold)

\* the mask the module is given: the registry's unless overridden
ModuleBatchMask ==
    IF cargs.mask.t # "none" /\ ~cargs.override_missing_proteins
    THEN cargs.mask ELSE NoMask

PyArray(rows) == [t |-> "ndarray", v |-> rows]
PriorPair(mean, scale) == [type |-> "priors", mean |-> mean, scale |-> scale]

CtorBegin ==
    /\ pc = "init"
    /\ LET emp_prior == EmpPrior(cargs.empirical_protein_background_prior,
                                 cargs.n_proteins)
       IN  /\ warned' = IF ModuleBatchMask # NoMask
                        THEN Append(warned, "UserWarning: missing proteins")
                        ELSE warned
           /\ IF Truthy(emp_prior) /\ cargs.minified_data_type # LatentPosterior
              THEN pc' = "prior" /\ ret' = ret
              ELSE pc' = "build" /\ ret' = PriorPair(PyNone, PyNone)
    /\ UNCHANGED <<cargs, next_b, batch_avg_mus, batch_avg_scales, fits,
                   estimator_calls, module>>
    /\ UNCHANGED postVars
    /\ UNCHANGED moreVars
    /\ UNCHANGED lateVars

CtorFinish ==
    /\ pc = "build"
    /\ module' =
           [protein_batch_mask |-> ModuleBatchMask,
            use_adversarial_classifier |-> ModuleBatchMask # NoMask,
            protein_background_prior_mean |-> ret.mean,
            protein_background_prior_scale |-> ret.scale,
            n_input_proteins |-> cargs.n_proteins,
            n_batch |-> cargs.n_batch,
            n_panel |-> IF cargs.has_panel THEN Len(cargs.panel)
                        ELSE cargs.n_batch,
            panel_key |-> IF cargs.has_panel THEN "panel" ELSE "batch"]
    /\ model' = [BuiltModel(0) EXCEPT
                     !.use_adversarial_classifier = ModuleBatchMask # NoMask]
    /\ pc' = "constructed"
    /\ UNCHANGED <<cargs, next_b, batch_avg_mus, batch_avg_scales, fits,
                   estimator_calls, warned, ret>>
    /\ UNCHANGED postVars
    /\ UNCHANGED <<de, rna_list, pro_list, background_mean, history>>
    /\ UNCHANGED lateVars

\* sklearn's GaussianMixture(n_components=2).fit on the log1p values of one
\* cell: too few values are refused, an all-zero cell does not converge,
\* and a fit may emit another warning
GmmFit(profile, n_values) ==
    IF n_values < NComponents THEN [kind |-> "ValueError"]
    ELSE CASE profile = "all_zero" -> [kind |-> "ConvergenceWarning"]
           [] profile = "odd" -> [kind |-> "RuntimeWarning"]
           [] profile = "low_first" ->
                  [kind |-> "fitted", means |-> <<RInt(1), RInt(3)>>,
                   covariances |-> <<Rat(1, 4), ROne>>]
           [] OTHER ->
                  [kind |-> "fitted", means |-> <<RInt(4), RInt(2)>>,
                   covariances |-> <<RInt(4), Rat(1, 9)>>]

\* np.argsort(means)[0]
LowerComponent(means) == IF RLeq(means[1], means[2]) THEN 1 ELSE 2

\* what one sampled cell adds to mus and scales
CellPrior(fit) ==
    IF fit.kind = "ConvergenceWarning"
    THEN [mu |-> RZero, scale |-> PlaceholderScale]
    ELSE LET k == LowerComponent(fit.means)
         IN  [mu |-> fit.means[k], scale |-> Sqrt(fit.covariances[k])]

\* a grouping that is the batch, whether or not a panel is registered
BatchGrouping == cargs.groups

\* the cells by category of "panel" if "n_panel" is in summary_stats, of the
\* batch otherwise
Grouping == IF cargs.has_panel THEN cargs.panel ELSE cargs.groups

NumCategories == Len(Grouping)
NumInBatch(b) == Len(Grouping[b + 1])
UsedProteins(b) ==
    IF cargs.mask.t # "none" THEN cargs.mask.v[b + 1]
    ELSE 1 .. cargs.n_proteins

\* the mask check made before the empty check
MaskCheckedFirst(b) ==
    IF cargs.mask.t # "none"
           /\ Cardinality(cargs.mask.v[b + 1]) < MinUsableProteins
    THEN "too_few"
    ELSE IF NumInBatch(b) = 0 THEN "empty" ELSE "fit"

\* the checks of one loop iteration, in the order they are made
BatchCase(b) ==
    IF NumInBatch(b) = 0 THEN "empty"
    ELSE IF cargs.mask.t # "none"
                /\ Cardinality(cargs.mask.v[b + 1]) < MinUsableProteins
         THEN "too_few"
         ELSE "fit"

\* the least member of a set of positions, or 0
First(positions) ==
    IF positions = {} THEN 0
    ELSE CHOOSE j \in positions : \A k \in positions : j <= k

\* the first fit from position i on that is not a fitted mixture, or 0
FirstUnfitted(outcomes, i) ==
    First({j \in i .. Len(outcomes) : outcomes[j].kind # "fitted"})

\* the first fit that raises something other than ConvergenceWarning, or 0
FirstRaise(outcomes, i) ==
    First({j \in i .. Len(outcomes) :
              outcomes[j].kind \notin {"fitted", "ConvergenceWarning"}})

\* the mean of the means and the root of the mean of the squared scales
RootMeanSquare(priors, n_cells) ==
    [mu |-> RDiv(RSum([i \in DOMAIN priors |-> priors[i].mu]),
                 RInt(Len(priors))),
     scale |-> Sqrt(RDiv(RSum([i \in DOMAIN priors |-> Square(priors[i].scale)]),
                         RInt(n_cells)))]

\* np.mean(mus), np.sqrt(np.sum(np.square(scales)) / n_cells ** 2)
BatchAverage(priors, n_cells) ==
    [mu |-> RDiv(RSum([i \in DOMAIN priors |-> priors[i].mu]),
                 RInt(Len(priors))),
     scale |-> Sqrt(RDiv(RSum([i \in DOMAIN priors |-> Square(priors[i].scale)]),
                         RInt(n_cells * n_cells)))]

AppendBatch(mu, scale, nfits) ==
    /\ batch_avg_mus' = Append(batch_avg_mus, mu)
    /\ batch_avg_scales' = Append(batch_avg_scales, scale)
    /\ fits' = Append(fits, nfits)
    /\ next_b' = next_b + 1
    /\ UNCHANGED <<pc, ret>>

PriorBegin ==
    /\ pc = "prior"
    /\ estimator_calls' = estimator_calls + 1
    /\ LET v == ValidateAnndata(cargs.data)
       IN  IF v.raised
           THEN pc' = "raised" /\ ret' = Raise("ValueError")
           ELSE IF v.warned # <<>>
                THEN pc' = "raised" /\ ret' = Raise("UserWarning")
                ELSE pc' = "prior_loop" /\ ret' = ret
    /\ next_b' = 0
    /\ batch_avg_mus' = <<>>
    /\ batch_avg_scales' = <<>>
    /\ fits' = <<>>
    /\ UNCHANGED <<cargs, module, warned>>
    /\ UNCHANGED postVars
    /\ UNCHANGED moreVars
    /\ UNCHANGED lateVars

PriorBatch ==
    /\ pc = "prior_loop"
    /\ next_b < NumCategories
    /\ LET b == next_b
           kind == BatchCase(b)
           used == Cardinality(UsedProteins(b))
       IN  IF kind = "empty"
           THEN AppendBatch(RZero, Sqrt(ROne), 0) /\ UNCHANGED fitVars
           ELSE IF kind = "too_few"
                THEN AppendBatch(RZero, PlaceholderScale, 0)
                     /\ UNCHANGED fitVars
                ELSE \E cells \in [1 .. cargs.n_cells -> 1 .. NumInBatch(b)] :
                         LET fit(i) ==
                                 GmmFit(Grouping[b + 1][cells[i]], used)
                             outcomes == [i \in 1 .. cargs.n_cells |-> fit(i)]
                             bad == FirstRaise(outcomes, 1)
                             done == IF bad # 0 THEN bad - 1
                                     ELSE cargs.n_cells
                             avg == BatchAverage(
                                        [i \in 1 .. done |-> CellPrior(fit(i))],
                                        cargs.n_cells)
                         IN  /\ sampled_cells' = cells
                             /\ mus' = [i \in 1 .. done |->
                                           CellPrior(fit(i)).mu]
                             /\ scales' = [i \in 1 .. done |->
                                              CellPrior(fit(i)).scale]
                             /\ IF bad # 0
                                THEN /\ pc' = "raised"
                                     /\ ret' = Raise(outcomes[bad].kind)
                                     /\ fits' = Append(fits, bad)
                                     /\ UNCHANGED <<next_b, batch_avg_mus,
                                                    batch_avg_scales>>
                                ELSE AppendBatch(avg.mu, avg.scale,
                                                 cargs.n_cells)
    /\ UNCHANGED <<cargs, estimator_calls, module, warned>>
    /\ UNCHANGED postVars
    /\ UNCHANGED moreVars
    /\ UNCHANGED trainVars

\* the row as it is, not repeated
OneRow(row, n) == <<row>>

\* np.tile(row, (pro_exp.shape[1], 1))
Tile(row, n) == [p \in 1 .. n |-> row]

PriorReturn ==
    /\ pc = "prior_loop"
    /\ next_b = NumCategories
    /\ ret' = PriorPair(PyArray(Tile(batch_avg_mus, cargs.n_proteins)),
                        PyArray(Tile(batch_avg_scales, cargs.n_proteins)))
    /\ pc' = IF cargs.entry = "constructor" THEN "build" ELSE "done"
    /\ UNCHANGED <<cargs, next_b, batch_avg_mus, batch_avg_scales, fits,
                   estimator_calls, module, warned>>
    /\ UNCHANGED postVars
    /\ UNCHANGED moreVars
    /\ UNCHANGED lateVars

(***************************************************************************)
(* differential_expression and the function it hands to _de_core,          *)
(* _expression_for_de.  _de_core is outside this file: it is modelled as   *)
(* one call of the function on the cells of the request.                   *)
(***************************************************************************)
DE == "differential_expression"
EXPR == "_expression_for_de"

PyFloat(q) == [t |-> "float", v |-> q]
In(x, seq) == \E i \in DOMAIN seq : seq[i] = x

\* use_field = ["rna", "protein"] when it is None
UseField(use_field) ==
    IF use_field.t = "none" THEN <<"rna", "protein">> ELSE use_field.v

\* one default for both signatures
SameDefault(routine) == Rat(1, 2)

\* protein_prior_count of the signature: 0.1 in differential_expression,
\* 0.5 in _expression_for_de
DefaultPriorCount(routine) == IF routine = DE THEN Rat(1, 10) ELSE Rat(1, 2)
PriorCount(a) ==
    IF a.protein_prior_count.t = "none" THEN DefaultPriorCount(a.routine)
    ELSE a.protein_prior_count.v

\* str(i) + "_protein"
Suffixed(name) == [kind |-> "str", base |-> name, suffix |-> "_protein"]

\* col_names, before np.concatenate: one array per modality in use
ColNames(use_field) ==
    (IF In("rna", use_field) THEN <<VarNames>> ELSE <<>>)
    \o (IF In("protein", use_field)
        THEN <<[p \in DOMAIN ProteinNames |-> Suffixed(ProteinNames[p])]>>
        ELSE <<>>)

\* the call of get_normalized_expression made by _expression_for_de
ExpressionArgs(a) ==
    [a EXCEPT !.routine = GNE, !.return_numpy = PyBool(TRUE), !.n_samples = 1,
              !.library_size = PyInt(1), !.return_mean = TRUE,
              !.gene_list = IF In("rna", UseField(a.use_field)) THEN PyNone
                            ELSE [t |-> "list", v |-> {}],
              !.protein_list = IF In("protein", UseField(a.use_field))
                               THEN PyNone ELSE [t |-> "list", v |-> {}]]

\* protein += protein_prior_count
AddPriorCount(protein, c) ==
    [i \in DOMAIN protein |-> [f \in DOMAIN protein[i] |->
        RAdd(protein[i][f], c)]]

\* a joint matrix with the protein columns first
ProteinsFirst(rna, protein) == [i \in DOMAIN rna |-> protein[i] \o rna[i]]

\* np.concatenate([rna, protein], axis=1)
Joint(rna, protein) == [i \in DOMAIN rna |-> rna[i] \o protein[i]]

Frame(a, names) ==
    [routine |-> a.routine, stage |-> "model_fn", args |-> a,
     protein_prior_count |-> PriorCount(a), col_names |-> names]

CallModelFn(a, names, w) ==
    /\ de' = Frame(a, names)
    /\ args' = ExpressionArgs(a)
    /\ warned' = warned \o w
    /\ UNCHANGED <<pc, ret, indices, return_numpy, transform_batch, pos>>
    /\ UnchangedLists

DeBegin ==
    /\ pc = "start"
    /\ args.routine = DE
    /\ LET v == ValidateAnndata(args.data)
           names == ColNames(UseField(args.use_field))
       IN  IF v.raised THEN RaiseAtStart("ValueError", <<>>) /\ UNCHANGED de
           ELSE IF names = <<>>
           THEN RaiseAtStart("ValueError", v.warned) /\ UNCHANGED de
           ELSE CallModelFn(args, Cat0(names), v.warned)
    /\ UNCHANGED ctorVars
    /\ UNCHANGED <<model, rna_list, pro_list, background_mean, history>>
    /\ UNCHANGED lateVars

ExprBegin ==
    /\ pc = "start"
    /\ args.routine = EXPR
    /\ CallModelFn(args, <<>>, <<>>)
    /\ UNCHANGED ctorVars
    /\ UNCHANGED <<model, rna_list, pro_list, background_mean, history>>
    /\ UNCHANGED lateVars

ExprReturn ==
    /\ pc = "done"
    /\ de # NoValue
    /\ de.stage = "model_fn"
    /\ de' = [de EXCEPT !.stage = "returned"]
    /\ ret' = [type |-> "joint",
               values |-> Joint(ret.gene.values,
                                AddPriorCount(ret.protein.values,
                                              de.protein_prior_count)),
               columns |-> de.col_names]
    /\ UNCHANGED <<args, pc, indices, return_numpy, transform_batch, pos,
                   warned>>
    /\ UnchangedLists
    /\ UNCHANGED ctorVars
    /\ UNCHANGED <<model, rna_list, pro_list, background_mean, history>>
    /\ UNCHANGED lateVars

(***************************************************************************)
(* posterior_predictive_sample.  module.sample is outside this file: a     *)
(* sampled count is a symbolic term naming its cell, sample and feature,   *)
(* in a tensor (cells, features) for n_samples = 1 and (samples, cells,    *)
(* features) otherwise.                                                    *)
(***************************************************************************)
PPS == "posterior_predictive_sample"

SampleEntry(name, c, s, f) ==
    [op |-> "sample", of |-> name, cell |-> c, sample |-> s, feature |-> f]
Sample2(name, mb, s, nf) ==
    [i \in 1 .. Len(mb) |-> [f \in 1 .. nf |-> SampleEntry(name, mb[i], s, f)]]
ModuleSample(name, mb, n, nf) ==
    IF n > 1 THEN [s \in 1 .. n |-> Sample2(name, mb, s, nf)]
    ELSE Sample2(name, mb, 1, nf)

\* a check of the gene likelihood that accepts every likelihood
AnyLikelihood(gene_likelihood) == FALSE

\* self.module.gene_likelihood not in ["nb"]
InvalidLikelihood(gene_likelihood) == gene_likelihood \notin {"nb"}

\* a sample kept in the order module.sample gives it
KeepAxes(x, n) == x

\* np.transpose(x, (1, 2, 0)) when n_samples > 1
Transpose120(x, n) == IF n > 1 THEN Permute120(x) ELSE x

PpsBegin ==
    /\ pc = "start"
    /\ args.routine = PPS
    /\ LET v == ValidateAnndata(args.data)
       IN  IF InvalidLikelihood(args.gene_likelihood)
           THEN RaiseAtStart("ValueError", <<>>)
           ELSE IF v.raised THEN RaiseAtStart("ValueError", <<>>)
           ELSE EnterLoop(ResolveIndices(args.indices), return_numpy,
                          transform_batch, v.warned)
    /\ UNCHANGED ctorVars
    /\ UNCHANGED moreVars
    /\ UNCHANGED lateVars

PpsMinibatch ==
    /\ pc = "loop"
    /\ args.routine = PPS
    /\ pos < Len(indices)
    /\ LET mb == Load(args.adata, indices, pos, args.batch_size)
           n == args.n_samples
           rna_sample ==
               RowsT([f |-> "index", mask |-> GeneMask(args.gene_list)],
                     ModuleSample("rna", mb, n, NGenes), n)
           protein_sample ==
               RowsT([f |-> "index", mask |-> ProteinMask(args.protein_list)],
                     ModuleSample("protein", mb, n, NProteins), n)
       IN  /\ rna_list' = Append(rna_list, Transpose120(rna_sample, n))
           /\ pro_list' = Append(pro_list, Transpose120(protein_sample, n))
           /\ calls' = Append(calls, [fn |-> "sample", cells |-> mb,
                                      n_samples |-> n])
           /\ pos' = pos + Len(mb)
    /\ UNCHANGED <<args, pc, indices, return_numpy, transform_batch,
                   scale_list_gene, scale_list_pro, py_mixings, libraries,
                   corr_mats, draws, warned, ret>>
    /\ UNCHANGED ctorVars
    /\ model' = Inference(model)
    /\ UNCHANGED <<de, background_mean, history>>
    /\ UNCHANGED lateVars

PpsReturn ==
    /\ pc = "loop"
    /\ args.routine = PPS
    /\ pos = Len(indices)
    /\ ret' = [type |-> "dict", rna |-> Cat0(rna_list),
               protein |-> Cat0(pro_list)]
    /\ pc' = "done"
    /\ UNCHANGED <<args, indices, return_numpy, transform_batch, pos,
                   scale_list_gene, scale_list_pro, py_mixings, libraries,
                   corr_mats, calls, draws, warned>>
    /\ UNCHANGED ctorVars
    /\ UNCHANGED moreVars
    /\ UNCHANGED lateVars

(***************************************************************************)
(* get_protein_background_mean.                                            *)
(***************************************************************************)
GPBM == "get_protein_background_mean"

GpbmBegin ==
    /\ pc = "start"
    /\ args.routine = GPBM
    /\ LET v == ValidateAnndata(args.data)
       IN  IF v.raised THEN RaiseAtStart("ValueError", <<>>)
           ELSE EnterLoop(ResolveIndices(args.indices), return_numpy,
                          transform_batch, v.warned)
    /\ UNCHANGED ctorVars
    /\ UNCHANGED moreVars
    /\ UNCHANGED lateVars

GpbmMinibatch ==
    /\ pc = "loop"
    /\ args.routine = GPBM
    /\ pos < Len(indices)
    /\ LET mb == Load(args.adata, indices, pos, args.batch_size)
           b_mean == ModuleForward(mb, 1, PyNone).py_rate_back
       IN  /\ background_mean' = Append(background_mean, b_mean)
           /\ calls' = Append(calls, Invocation(mb, 1, PyNone))
           /\ pos' = pos + Len(mb)
    /\ UNCHANGED <<args, pc, indices, return_numpy, transform_batch,
                   scale_list_gene, scale_list_pro, py_mixings, libraries,
                   corr_mats, draws, warned, ret>>
    /\ UNCHANGED ctorVars
    /\ model' = Inference(model)
    /\ UNCHANGED <<de, rna_list, pro_list, history>>
    /\ UNCHANGED lateVars

GpbmReturn ==
    /\ pc = "loop"
    /\ args.routine = GPBM
    /\ pos = Len(indices)
    /\ ret' = NdArray(Cat0(background_mean))
    /\ pc' = "done"
    /\ UNCHANGED <<args, indices, return_numpy, transform_batch, pos,
                   scale_list_gene, scale_list_pro, py_mixings, libraries,
                   corr_mats, calls, draws, warned>>
    /\ UNCHANGED ctorVars
    /\ UNCHANGED moreVars
    /\ UNCHANGED lateVars

(***************************************************************************)
(* _get_denoised_samples called on its own: transform_batch is a batch     *)
(* code or None and goes to the module as it is.                           *)
(***************************************************************************)
DEN == "_get_denoised_samples"

DenBegin ==
    /\ pc = "start"
    /\ args.routine = DEN
    /\ LET v == ValidateAnndata(args.data)
       IN  IF v.raised THEN RaiseAtStart("ValueError", <<>>)
           ELSE EnterLoop(ResolveIndices(args.indices), return_numpy,
                          <<args.transform_batch>>, v.warned)
    /\ UNCHANGED ctorVars
    /\ UNCHANGED moreVars
    /\ UNCHANGED lateVars

\* the loop over the minibatches and the return
DenSample ==
    /\ pc = "loop"
    /\ args.routine = DEN
    /\ LET n == args.n_samples
           b == args.transform_batch
           cells == CellsOf(args.adata, indices)
           made == DenoisedCalls(cells, args.batch_size, n, b)
       IN  /\ calls' = calls \o (IF n > 1 THEN made ELSE SubSeq(made, 1, 1))
           /\ IF n > 1
              THEN /\ ret' = NdArray(GetDenoisedSamples(
                                 cells, n, args.rna_size_factor, b, 1))
                   /\ pc' = "done"
              ELSE \* data[:, :, x.shape[1]:] of a 2-d array
                   /\ ret' = Raise("IndexError")
                   /\ pc' = "raised"
    /\ UNCHANGED <<args, indices, return_numpy, transform_batch, pos,
                   scale_list_gene, scale_list_pro, py_mixings, libraries,
                   corr_mats, draws, warned>>
    /\ UNCHANGED ctorVars
    /\ UNCHANGED moreVars
    /\ UNCHANGED lateVars

(***************************************************************************)
(* A caller that makes one estimation call after another on the same       *)
(* model: when a call has returned or raised, the next one starts with new *)
(* locals; only the model object is carried over.                          *)
(***************************************************************************)
MaxCalls == 2

CallOver ==
    IF pc = "done"
    THEN (IF de = NoValue THEN TRUE ELSE de.stage = "returned")
    ELSE pc = "raised"

NextCall(U) ==
    /\ CallOver
    /\ Len(history) < MaxCalls
    /\ history' = Append(history, IF de = NoValue THEN args.routine
                                  ELSE de.routine)
    /\ args' \in U
    /\ pc' = "start"
    /\ indices' = <<>>
    /\ return_numpy' = PyNone
    /\ transform_batch' = <<>>
    /\ pos' = 0
    /\ scale_list_gene' = <<>>
    /\ scale_list_pro' = <<>>
    /\ py_mixings' = <<>>
    /\ libraries' = <<>>
    /\ corr_mats' = <<>>
    /\ calls' = <<>>
    /\ draws' = <<>>
    /\ warned' = <<>>
    /\ ret' = NoValue
    /\ de' = NoValue
    /\ rna_list' = <<>>
    /\ pro_list' = <<>>
    /\ background_mean' = <<>>
    /\ UNCHANGED model
    /\ UNCHANGED lateVars
    /\ UNCHANGED ctorVars

(***************************************************************************)
(* The table behind the value get_feature_correlation_matrix returns.      *)
(* np.corrcoef and spearmanr are outside this file: entry (f, g) of a      *)
(* correlation matrix is 1 for f = g and a term over the two columns       *)
(* otherwise.                                                              *)
(***************************************************************************)
Number(q) == [op |-> "number", v |-> q]
CorrEntry(corr, f, g, j) ==
    IF f = g THEN Number(ROne)
    ELSE [op |-> corr.op, columns |-> {f, g}, matrix |-> j]

\* np.mean(np.stack(corr_mats), axis=0), entry (f, g)
MeanEntry(mats, f, g) ==
    LET es == [j \in DOMAIN mats |-> CorrEntry(mats[j], f, g, j)]
    IN  IF \A j \in DOMAIN es : es[j].op = "number"
        THEN Number(RDiv(RSum([j \in DOMAIN es |-> es[j].v]),
                         RInt(Len(es))))
        ELSE [op |-> "mean", a |-> es]

Table(mats) ==
    LET F == DOMAIN mats[1].a[1]
    IN  [f \in F |-> [g \in F |-> MeanEntry(mats, f, g)]]

(***************************************************************************)
(* train.  A dict is a function from its keys to Python values; the dict   *)
(* objects alive during the call are kept in heap by identity, so that an  *)
(* update in place is seen through every reference to the object.  The     *)
(* data splitter, the training plan and the train runner are outside this  *)
(* file: they are recorded by the keyword arguments they are built with.   *)
(***************************************************************************)
TRAIN == "train"

PyDict(items) == [t |-> "dict", v |-> items]
PyRef(o) == [t |-> "ref", v |-> o]
DictObject(items) == [cls |-> "dict", items |-> items]

\* the identities of the caller's plan_kwargs object, of update_dict and of
\* the {} of the isinstance line
CallerObject == "plan_kwargs of the caller"
UpdateDictObject == "update_dict"
EmptyObject == "{}"

\* the keys of update_dict
UpdateKeys ==
    {"lr", "adversarial_classifier", "reduce_lr_on_plateau",
     "n_epochs_kl_warmup", "n_steps_kl_warmup"}

\* an adversarial classifier that is on only when the caller asks for it
ExplicitOnly(a, self) ==
    IF a.adversarial_classifier.t = "none" THEN PyBool(FALSE)
    ELSE a.adversarial_classifier

\* if adversarial_classifier is None: self._use_adversarial_classifier
AdversarialClassifier(a, self) ==
    IF a.adversarial_classifier.t = "none"
    THEN PyBool(self.use_adversarial_classifier)
    ELSE a.adversarial_classifier

\* n_steps_kl_warmup, or int(0.75 * self.adata.n_obs) when it is None
NStepsKlWarmup(a) ==
    IF a.n_steps_kl_warmup.t # "none" THEN a.n_steps_kl_warmup
    ELSE PyInt((3 * a.n_obs) \div 4)

\* a validation frequency that is the caller's whatever the other options are
CallersValue(a) == a.check_val_every_n_epoch

\* if reduce_lr_on_plateau: check_val_every_n_epoch = 1
CheckValEveryNEpoch(a) ==
    IF a.reduce_lr_on_plateau THEN PyInt(1) ELSE a.check_val_every_n_epoch

UpdateDict(a, self) ==
    [k \in UpdateKeys |->
        CASE k = "lr" -> a.lr
          [] k = "adversarial_classifier" -> AdversarialClassifier(a, self)
          [] k = "reduce_lr_on_plateau" -> PyBool(a.reduce_lr_on_plateau)
          [] k = "n_epochs_kl_warmup" -> a.n_epochs_kl_warmup
          [] k = "n_steps_kl_warmup" -> NStepsKlWarmup(a)]

\* an update that keeps the value a key already has
SetDefaults(d, u) ==
    [k \in (DOMAIN d) \cup (DOMAIN u) |-> IF k \in DOMAIN d THEN d[k] ELSE u[k]]

\* dict.update: the keys of u are written over d, the other keys of d stay
Update(d, u) ==
    [k \in (DOMAIN d) \cup (DOMAIN u) |-> IF k \in DOMAIN u THEN u[k] ELSE d[k]]

\* the objects alive when train is entered
CallerHeap(a) ==
    IF a.plan_kwargs.t = "none" THEN <<>>
    ELSE [o \in {CallerObject} |-> DictObject(a.plan_kwargs.v)]

\* the reference train is given as plan_kwargs
CallerRef(a) ==
    IF a.plan_kwargs.t = "none" THEN PyNone ELSE PyRef(CallerObject)

\* a merge of the caller's items and update_dict into a dict of its own
MergedCopy(h, ref, u) ==
    [o \in (DOMAIN h) \cup {UpdateDictObject} |->
        IF o = UpdateDictObject
        THEN DictObject(IF ref.t = "none" THEN u
                        ELSE Update(h[ref.v].items, u))
        ELSE h[o]]

\* update_dict is created; plan_kwargs.update(update_dict) when plan_kwargs is
\* not None
UpdateInPlace(h, ref, u) ==
    [o \in (DOMAIN h) \cup {UpdateDictObject} |->
        IF o = UpdateDictObject THEN DictObject(u)
        ELSE IF ref.t # "none" /\ o = ref.v
             THEN [h[o] EXCEPT !.items = Update(@, u)]
             ELSE h[o]]

\* what plan_kwargs is bound to after the update: itself, or update_dict
Rebound(ref) ==
    IF ref.t # "none" THEN ref ELSE PyRef(UpdateDictObject)

\* plan_kwargs if isinstance(plan_kwargs, dict) else {}
AsDict(h, ref) ==
    IF h[ref.v].cls = "dict" THEN ref ELSE PyRef(EmptyObject)

\* get_max_epochs_heuristic(self.adata.n_obs) when max_epochs is None
MaxEpochs(a) ==
    IF a.max_epochs.t = "none" THEN [t |-> "heuristic", v |-> a.n_obs]
    ELSE a.max_epochs

Train ==
    /\ args.routine = TRAIN
    /\ pc = "constructed"
    /\ LET u == UpdateDict(args, model)
           h == UpdateInPlace(heap, CallerRef(args), u)
           ref == AsDict(h, Rebound(CallerRef(args)))
           h2 == IF ref.v = EmptyObject
                 THEN [o \in (DOMAIN h) \cup {EmptyObject} |->
                          IF o = EmptyObject THEN DictObject(<<>>) ELSE h[o]]
                 ELSE h
           plan == [module |-> "self.module", kwargs |-> h2[ref.v].items]
       IN  /\ heap' = h2
           /\ plan_kwargs' = ref
           /\ training_plan' = plan
           /\ runner' = [training_plan |-> plan,
                         max_epochs |-> MaxEpochs(args),
                         early_stopping |-> args.early_stopping,
                         check_val_every_n_epoch |-> CheckValEveryNEpoch(args)]
    /\ model' = [model EXCEPT !.params = 1]
    /\ ret' = [type |-> "runner()"]
    /\ pc' = "done"
    /\ UNCHANGED <<de, rna_list, pro_list, background_mean, history>>
    /\ UNCHANGED fitVars
    /\ UNCHANGED ctorVars
    /\ UNCHANGED postVars
    /\ UNCHANGED warned

(***************************************************************************)
(* Specifications: a call is drawn from a set of argument records and run  *)
(* to its return or to the exception it raises.                            *)
(***************************************************************************)
InitWith(U) ==
    /\ args \in U
    /\ pc = "start"
    /\ indices = <<>>
    /\ return_numpy = PyNone
    /\ transform_batch = <<>>
    /\ pos = 0
    /\ scale_list_gene = <<>>
    /\ scale_list_pro = <<>>
    /\ py_mixings = <<>>
    /\ libraries = <<>>
    /\ corr_mats = <<>>
    /\ calls = <<>>
    /\ draws = <<>>
    /\ warned = <<>>
    /\ ret = NoValue
    /\ cargs = NoValue
    /\ next_b = 0
    /\ batch_avg_mus = <<>>
    /\ batch_avg_scales = <<>>
    /\ fits = <<>>
    /\ estimator_calls = 0
    /\ module = NoValue
    /\ model = BuiltModel(0)
    /\ de = NoValue
    /\ rna_list = <<>>
    /\ pro_list = <<>>
    /\ background_mean = <<>>
    /\ history = <<>>
    /\ sampled_cells = <<>>
    /\ mus = <<>>
    /\ scales = <<>>
    /\ heap = <<>>
    /\ plan_kwargs = NoValue
    /\ training_plan = NoValue
    /\ runner = NoValue

Latent == [t |-> "latent", v |-> 0]
NameList(S) == [t |-> "list", v |-> S]

\* single transform_batch values: None, a category of either type, an
\* integer code that is no category, a string that is no category
Scalars ==
    {PyNone, PyInt(0), PyStr(0)}
        \cup {Category("int", k) : k \in BatchCodes}
        \cup {Category("str", k) : k \in BatchCodes}
Lists(cattype) ==
    {PyList(s) : s \in SeqsUpTo({PyNone} \cup Range(BatchMapping(cattype)),
                                MaxTB) \ {<<>>}}
ProteinLists == {PyNone, NameList({ProteinNames[1]})}

SampleCounts == {1, MaxSamples}
BatchSizes == {1, MaxBatchSize}

\* calls with a single transform_batch value, for datasets of either
\* category type
SingleValueCalls ==
    {[DefaultArgs EXCEPT !.routine = r, !.cattype = ct,
                         !.transform_batch = tb, !.n_samples = n,
                         !.batch_size = bs, !.return_mean = rm] :
        r \in {GNE, GPFP, GFCM}, ct \in {"int", "str"}, tb \in Scalars,
        n \in SampleCounts, bs \in BatchSizes, rm \in BOOLEAN}

InitSingleValue == InitWith(SingleValueCalls)
NextSingleValue ==
    \/ GneBegin \/ GneMinibatch \/ GneReturn
    \/ GpfpBegin \/ GpfpMinibatch \/ GpfpReturn
    \/ GfcmBegin \/ GfcmCondition \/ GfcmReturn
SpecSingleValue == InitSingleValue /\ [][NextSingleValue]_vars

\* calls with a list of transform batches
AverageLists ==
    {PyList(q) : q \in SeqsUpTo({PyNone, Category("str", NBatch - 1)},
                                MaxTB) \ {<<>>}}

AverageCalls ==
    {[DefaultArgs EXCEPT !.routine = GNE, !.transform_batch = tb,
                         !.n_samples = n, !.return_mean = rm,
                         !.scale_protein = o.sp,
                         !.include_protein_background = o.bg,
                         !.protein_list = o.pl] :
        tb \in AverageLists, n \in SampleCounts, rm \in BOOLEAN,
        o \in {[sp |-> FALSE, bg |-> FALSE, pl |-> PyNone],
               [sp |-> TRUE, bg |-> FALSE, pl |-> PyNone],
               [sp |-> TRUE, bg |-> TRUE,
                pl |-> NameList({ProteinNames[1]})]}}
    \cup
    {[DefaultArgs EXCEPT !.routine = GNE, !.transform_batch = tb,
                         !.library_size = Latent,
                         !.gene_list = NameList({VarNames[1]})] :
        tb \in AverageLists}
    \cup
    {[DefaultArgs EXCEPT !.routine = GPFP, !.transform_batch = tb,
                         !.n_samples = n, !.return_mean = rm,
                         !.protein_list =
                             IF rm THEN PyNone
                             ELSE NameList({ProteinNames[1]})] :
        tb \in AverageLists, n \in SampleCounts, rm \in BOOLEAN}

InitAverage == InitWith(AverageCalls)
NextAverage ==
    \/ GneBegin \/ GneMinibatch \/ GneReturn
    \/ GpfpBegin \/ GpfpMinibatch \/ GpfpReturn
SpecAverage == InitAverage /\ [][NextAverage]_vars

(***************************************************************************)
(* Constructions of a model and direct calls of the prior estimator.       *)
(***************************************************************************)
MaxNCells == 2

Min(a, b) == IF a < b THEN a ELSE b

\* the cells of one category: none, one cell, an all-zero cell and a cell
\* whose higher component comes first, a cell whose fit warns
GroupChoices ==
    {<<>>, <<"low_first">>, <<"all_zero", "high_first">>, <<"low_first", "odd">>}

\* what a mask marks present for one category: every protein, or fewer
\* than the mask check asks for
MaskChoices(n_proteins) ==
    {1 .. n_proteins, 1 .. Min(n_proteins, MinUsableProteins - 1)}

Masks(n, n_proteins) ==
    {NoMask} \cup {Mask(s) : s \in [1 .. n -> MaskChoices(n_proteins)]}

EstimatorCalls ==
    UNION {{[DefaultCtorArgs EXCEPT !.entry = "estimator", !.n_proteins = np,
                                    !.mask = mk, !.groups = g,
                                    !.n_cells = nc] :
                mk \in Masks(NBatch, np), g \in [1 .. NBatch -> GroupChoices],
                nc \in {1, MaxNCells}} :
           np \in {1, MinUsableProteins - 1, MinUsableProteins + 1}}
    \cup
    {[DefaultCtorArgs EXCEPT !.entry = "estimator", !.data = "not_counts",
                             !.groups = g, !.n_cells = 1] :
        g \in [1 .. NBatch -> GroupChoices]}
    \cup
    {[DefaultCtorArgs EXCEPT !.entry = "estimator", !.has_panel = TRUE,
                             !.panel = g, !.n_cells = MaxNCells] :
        g \in [1 .. 1 -> GroupChoices]}

\* a panel whose categories hold the cells of the batches in reverse order
Reversed(g) == [p \in 1 .. Len(g) |-> g[Len(g) + 1 - p]]

CtorCalls ==
    UNION {{[DefaultCtorArgs EXCEPT
                 !.empirical_protein_background_prior = flag,
                 !.n_proteins = np, !.minified_data_type = mt,
                 !.override_missing_proteins = ov, !.mask = mk,
                 !.has_panel = hp, !.groups = g,
                 !.panel = IF hp THEN Reversed(g) ELSE <<>>, !.data = d] :
                flag \in {PyNone, PyBool(TRUE), PyBool(FALSE), PyStr(0),
                         PyStr(1)},
                mt \in {"none", LatentPosterior, "other"},
                ov \in BOOLEAN,
                mk \in {NoMask,
                        Mask([b \in 1 .. NBatch |->
                                  IF b = 1 THEN 1 .. np - 1 ELSE 1 .. np])},
                hp \in BOOLEAN,
                g \in {[b \in 1 .. NBatch |-> <<"low_first">>],
                       [b \in 1 .. NBatch |->
                            IF b = 1 THEN <<>> ELSE <<"high_first">>]},
                d \in {"ok", "not_counts"}} :
           np \in {MinUsableProteins - 1, EmpiricalPriorThreshold,
                   EmpiricalPriorThreshold + 1}}

InitPrior ==
    /\ cargs \in CtorCalls \cup EstimatorCalls
    /\ pc = IF cargs.entry = "constructor" THEN "init" ELSE "prior"
    /\ args = DefaultArgs
    /\ indices = <<>>
    /\ return_numpy = PyNone
    /\ transform_batch = <<>>
    /\ pos = 0
    /\ scale_list_gene = <<>>
    /\ scale_list_pro = <<>>
    /\ py_mixings = <<>>
    /\ libraries = <<>>
    /\ corr_mats = <<>>
    /\ calls = <<>>
    /\ draws = <<>>
    /\ warned = <<>>
    /\ ret = NoValue
    /\ next_b = 0
    /\ batch_avg_mus = <<>>
    /\ batch_avg_scales = <<>>
    /\ fits = <<>>
    /\ estimator_calls = 0
    /\ module = NoValue
    /\ model = NoValue
    /\ de = NoValue
    /\ rna_list = <<>>
    /\ pro_list = <<>>
    /\ background_mean = <<>>
    /\ history = <<>>
    /\ sampled_cells = <<>>
    /\ mus = <<>>
    /\ scales = <<>>
    /\ heap = <<>>
    /\ plan_kwargs = NoValue
    /\ training_plan = NoValue
    /\ runner = NoValue
NextPrior ==
    \/ CtorBegin \/ CtorFinish
    \/ PriorBegin \/ PriorBatch \/ PriorReturn
SpecPrior == InitPrior /\ [][NextPrior]_vars

(***************************************************************************)
(* What a call is to return, entry by entry.                               *)
(***************************************************************************)
IsScalar(tb) == tb.t # "list"
Mean(seq) == RDiv(RSum(seq), RInt(Len(seq)))
Columns(mask, nf) == Index([f \in 1 .. nf |-> f], mask)

\* the mixing draw used for row i, condition j, sample s, protein q
DrawAt(i, j, s, q) ==
    LET m == ((i - 1) \div args.batch_size) + 1
        l == ((i - 1) % args.batch_size) + 1
    IN  IF args.n_samples > 1 THEN draws[m][j][s][l][q] ELSE draws[m][j][l][q]

GeneValue(c, b, s, g) ==
    IF args.library_size.t = "latent" THEN PxRate(c, b, s, g)
    ELSE PxScale(c, b, s, g)

ProteinRaw(c, b, s, q, m) ==
    RAdd(RMul(PyRateFore(c, b, s, q), RSub(ROne, m)),
         IF args.include_protein_background
         THEN RMul(PyRateBack(c, b, s, q), m) ELSE RZero)

\* the value of one protein for one condition; M(q) is the mixing of q
ProteinValue(c, b, s, p, M(_)) ==
    LET tot == RSum([q \in Proteins |-> ProteinRaw(c, b, s, q, M(q))])
    IN  IF args.scale_protein /\ tot # RZero
        THEN RDiv(ProteinRaw(c, b, s, p, M(p)), tot)
        ELSE ProteinRaw(c, b, s, p, M(p))

\* rows = cells in index order, columns = selected features, samples last
Shape(val(_, _, _), nrows, cols, n, return_mean) ==
    [i \in 1 .. nrows |-> [x \in 1 .. Len(cols) |->
        IF n = 1 THEN val(i, cols[x], 1)
        ELSE IF return_mean THEN Mean([s \in 1 .. n |-> val(i, cols[x], s)])
        ELSE [s \in 1 .. n |-> val(i, cols[x], s)]]]

ExpectedGenes(idx, conds) ==
    Shape(LAMBDA i, g, s :
              Mean([j \in DOMAIN conds |-> GeneValue(idx[i], conds[j], s, g)]),
          Len(idx), Columns(GeneMask(args.gene_list), NGenes),
          args.n_samples, args.return_mean)

ExpectedProteins(idx, conds) ==
    Shape(LAMBDA i, p, s :
              Mean([j \in DOMAIN conds |->
                  ProteinValue(idx[i], conds[j], s, p,
                      LAMBDA q : IF args.sample_protein_mixing
                                 THEN DrawAt(i, j, s, q)
                                 ELSE Sigmoid(PyMixing(idx[i], conds[j], s, q)))]),
          Len(idx), Columns(ProteinMask(args.protein_list), NProteins),
          args.n_samples, args.return_mean)

\* the mean over the conditions of the per-condition foreground probability
ExpectedForeground(idx, conds) ==
    Shape(LAMBDA i, p, s :
              Mean([j \in DOMAIN conds |->
                  RSub(ROne, Sigmoid(PyMixing(idx[i], conds[j], s, p)))]),
          Len(idx), Columns(ProteinMask(args.protein_list), NProteins),
          args.n_samples, args.return_mean)

\* the invocations of a loop over minibatches, then over conditions
LoaderCalls(idx, upto, conds) ==
    LET bs == args.batch_size
        nmb == (upto + bs - 1) \div bs
        k == Len(conds)
    IN  [x \in 1 .. (nmb * k) |->
            Invocation(Minibatch(idx, ((x - 1) \div k) * bs, bs),
                       args.n_samples, conds[((x - 1) % k) + 1])]

Values(r) ==
    IF r.type = "tuple" THEN <<r.gene.values, r.protein.values>>
    ELSE r.values

(***************************************************************************)
(* C1.  A single transform_batch value v (None, an integer, a string) is   *)
(* iterated over as the one-element list [v]: the conditions, the module   *)
(* invocations and the result are those of the call with [v], and the      *)
(* call raises exactly when the call with [v] does.                        *)
(***************************************************************************)
AsList(v) == GetBatchCodeFromCategory(args.cattype, PyList(<<v>>))

C1_SingleValueAsList ==
    IsScalar(args.transform_batch) =>
        LET ref == AsList(args.transform_batch)
            n == args.n_samples
            denoised == Flatten(GetDenoisedSamples(indices, n,
                            args.rna_size_factor, ref.codes[1], 1), n)
        IN  /\ ref.raised => pc \in {"start", "raised"}
            /\ (pc = "raised" /\ ~ref.raised) =>
                   /\ args.routine = GFCM /\ n = 1
                   /\ calls = <<DenoisedCalls(indices, args.batch_size, n,
                                              ref.codes[1])[1]>>
            /\ pc \in {"loop", "done"} =>
                   /\ transform_batch = ref.codes
                   /\ Len(transform_batch) = 1
                   /\ args.routine \in {GNE, GPFP} =>
                          calls = LoaderCalls(indices, pos, ref.codes)
                   /\ args.routine = GFCM =>
                          calls = IF corr_mats = <<>> THEN <<>>
                                  ELSE DenoisedCalls(indices, args.batch_size,
                                                     n, ref.codes[1])
            /\ (pc = "done" /\ args.routine = GNE) =>
                   Values(ret) = <<ExpectedGenes(indices, ref.codes),
                                   ExpectedProteins(indices, ref.codes)>>
            /\ (pc = "done" /\ args.routine = GPFP) =>
                   Values(ret) = ExpectedForeground(indices, ref.codes)
            /\ (pc = "done" /\ args.routine = GFCM) =>
                   Values(ret) =
                       [op |-> "mean",
                        a |-> <<Correlation(args.correlation_type, denoised)>>]

C1_Witness ==
    /\ pc = "done"
    /\ args.transform_batch.t = "str"
    /\ args.routine = GNE
    /\ Len(calls) = NCells
    /\ transform_batch = <<PyInt(1)>>

(***************************************************************************)
(* C2.  For a transform_batch list of k entries the value returned for     *)
(* every cell and feature is the sum of the k per-condition values divided *)
(* by k, each protein value being computed in full (mixing, background,    *)
(* scaling) for its condition before it is added.                          *)
(***************************************************************************)
C2_UnweightedAverage ==
    (pc = "done" /\ args.transform_batch.t = "list") =>
        LET given == args.transform_batch.v
            codes == [j \in DOMAIN given |->
                         IF given[j].t = "none" THEN PyNone
                         ELSE PyInt(CHOOSE k \in BatchCodes :
                                 Category(args.cattype, k) = given[j])]
        IN  /\ Len(transform_batch) = Len(given)
            /\ args.routine = GNE =>
                   Values(ret) = <<ExpectedGenes(indices, codes),
                                   ExpectedProteins(indices, codes)>>
            /\ args.routine = GPFP =>
                   Values(ret) = ExpectedForeground(indices, codes)

C2_Witness ==
    /\ pc = "done"
    /\ args.routine = GNE
    /\ args.transform_batch.t = "list"
    /\ Len(args.transform_batch.v) = MaxTB
    /\ args.transform_batch.v[1] = args.transform_batch.v[MaxTB]
    /\ args.scale_protein
    /\ args.include_protein_background
    /\ args.protein_list # PyNone

(***************************************************************************)
(* C6.  Every entry returned by get_protein_foreground_probability lies    *)
(* in [0, 1] and is 1 minus the mixing probability sigmoid(mixing logit)   *)
(* averaged over the conditions, and over the samples when return_mean is  *)
(* True.                                                                   *)
(***************************************************************************)
InUnitInterval(x) == RLeq(RZero, x) /\ RLeq(x, ROne)

MeanMixing(idx, conds) ==
    Shape(LAMBDA i, p, s :
              Mean([j \in DOMAIN conds |->
                       Sigmoid(PyMixing(idx[i], conds[j], s, p))]),
          Len(idx), Columns(ProteinMask(args.protein_list), NProteins),
          args.n_samples, args.return_mean)

C6_ForegroundProbability ==
    (pc = "done" /\ args.routine = GPFP) =>
        LET mix == MeanMixing(indices, transform_batch)
            kept == args.n_samples > 1 /\ ~args.return_mean
        IN  /\ Len(ret.values) = Len(indices)
            /\ \A i \in DOMAIN ret.values :
                   /\ DOMAIN ret.values[i] = DOMAIN mix[i]
                   /\ \A x \in DOMAIN ret.values[i] :
                          IF kept
                          THEN /\ DOMAIN ret.values[i][x] = 1 .. args.n_samples
                               /\ \A s \in 1 .. args.n_samples :
                                      /\ InUnitInterval(ret.values[i][x][s])
                                      /\ ret.values[i][x][s] =
                                             RSub(ROne, mix[i][x][s])
                          ELSE /\ InUnitInterval(ret.values[i][x])
                               /\ ret.values[i][x] = RSub(ROne, mix[i][x])

C6_Witness ==
    /\ pc = "done"
    /\ args.routine = GPFP
    /\ Len(transform_batch) = MaxTB
    /\ args.n_samples = MaxSamples
    /\ args.return_mean
    /\ \E i \in DOMAIN ret.values : \E x \in DOMAIN ret.values[i] :
           ret.values[i][x] \notin {RZero, ROne, Rat(1, 2)}

(***************************************************************************)
(* Calls that differ in the cells asked for, the minibatch size and the    *)
(* form of the result.                                                     *)
(***************************************************************************)
IndexInputs ==
    {PyNone} \cup {PyList(q) : q \in SeqsUpTo({0, 1, NCells - 1}, MaxIdx)
                                       \ {<<>>}}
ReturnNumpyInputs == {PyNone, PyBool(TRUE), PyBool(FALSE)}

IndicesCalls ==
    {[DefaultArgs EXCEPT !.routine = r, !.indices = ix, !.batch_size = bs,
                         !.n_samples = o.n, !.return_mean = o.rm] :
        r \in {GNE, GPFP}, ix \in IndexInputs, bs \in BatchSizes,
        o \in {[n |-> 1, rm |-> TRUE], [n |-> MaxSamples, rm |-> TRUE],
               [n |-> MaxSamples, rm |-> FALSE]}}
    \cup
    {[DefaultArgs EXCEPT !.routine = r, !.indices = ix, !.n_samples = n,
                         !.return_mean = rm, !.return_numpy = rn] :
        r \in {GNE, GPFP}, ix \in {PyNone, PyList(<<NCells - 1, 0>>)},
        n \in SampleCounts, rm \in BOOLEAN, rn \in ReturnNumpyInputs}
    \cup
    {[DefaultArgs EXCEPT !.routine = GNE, !.indices = ix, !.batch_size = 1,
                         !.n_samples_overall = PyInt(MaxIdx)] :
        ix \in IndexInputs}
    \cup
    {[DefaultArgs EXCEPT !.routine = GLLS, !.indices = ix, !.batch_size = bs,
                         !.give_mean = gm] :
        ix \in IndexInputs, bs \in BatchSizes, gm \in BOOLEAN}
    \cup
    {[DefaultArgs EXCEPT !.routine = GLLS, !.is_trained = FALSE]}

InitIndices == InitWith(IndicesCalls)
NextIndices ==
    \/ GneBegin \/ GneMinibatch \/ GneReturn
    \/ GpfpBegin \/ GpfpMinibatch \/ GpfpReturn
    \/ GllsBegin \/ GllsMinibatch \/ GllsReturn
SpecIndices == InitIndices /\ [][NextIndices]_vars

(***************************************************************************)
(* C3.  Row i of the result is the result for the i-th requested cell      *)
(* index, whatever the minibatch size and the index sequence (all cells in *)
(* dataset order for indices=None, the resampled sequence when             *)
(* n_samples_overall is given); in a labeled result the i-th row label is  *)
(* the cell identifier of that index.                                      *)
(***************************************************************************)
Requested ==
    IF args.indices.t = "none" THEN [i \in 1 .. NCells |-> i - 1]
    ELSE args.indices.v

C3_RowOrder ==
    /\ pc \in {"loop", "done"} =>
           IF args.routine = GNE /\ args.n_samples_overall.t # "none"
           THEN /\ Len(indices) = args.n_samples_overall.v
                /\ Range(indices) \subseteq Range(Requested)
           ELSE indices = Requested
    /\ pc = "done" =>
           /\ \A i \in DOMAIN indices :
                  LET one == <<indices[i]>>
                  IN  /\ args.routine = GNE =>
                          /\ ret.gene.values[i] =
                                 ExpectedGenes(one, transform_batch)[1]
                          /\ ret.protein.values[i] =
                                 ExpectedProteins(one, transform_batch)[1]
                      /\ args.routine = GPFP =>
                          ret.values[i] =
                              ExpectedForeground(one, transform_batch)[1]
                      /\ args.routine = GLLS =>
                          ret.values[i] =
                              <<LibraryTerm(indices[i], args.give_mean)>>
           /\ \A r \in (IF args.routine = GNE THEN {ret.gene, ret.protein}
                        ELSE {ret}) :
                  /\ Len(r.values) = Len(indices)
                  /\ r.type = "DataFrame" =>
                         /\ Len(r.index) = Len(indices)
                         /\ \A i \in DOMAIN indices :
                                r.index[i] = ObsName(indices[i])

C3_Witness ==
    /\ pc = "done"
    /\ args.routine = GNE
    /\ args.batch_size = 1
    /\ indices = <<NCells - 1, 0>>
    /\ ret.gene.type = "DataFrame"
    /\ ret.gene.values[1] # ret.gene.values[2]

(***************************************************************************)
(* C4.  With n_samples > 1 and return_mean False the two routines return   *)
(* raw arrays for every return_numpy, do not raise, and emit the override  *)
(* warning exactly when return_numpy=False was passed.                     *)
(***************************************************************************)
C4_MultiSampleReturnsArrays ==
    args.routine \in {GNE, GPFP} =>
        LET multi == args.n_samples > 1 /\ ~args.return_mean
        IN  /\ pc # "raised"
            /\ pc \in {"loop", "done"} =>
                   warned = IF multi /\ args.return_numpy = PyBool(FALSE)
                            THEN <<"UserWarning: return_numpy">> ELSE <<>>
            /\ (pc = "done" /\ multi) =>
                   \A r \in (IF args.routine = GNE THEN {ret.gene, ret.protein}
                             ELSE {ret}) : r.type = "ndarray"

C4_Witness ==
    /\ pc = "done"
    /\ args.routine = GNE
    /\ args.n_samples > 1
    /\ ~args.return_mean
    /\ args.return_numpy = PyBool(FALSE)
    /\ warned # <<>>
    /\ ret.protein.type = "ndarray"

(***************************************************************************)
(* Calls with scale_protein=True.  With sampled mixing the calls are for   *)
(* one cell, so that every outcome of the draws is enumerated.             *)
(***************************************************************************)
ScaleConditions ==
    {PyNone, PyList(<<Category("str", 0)>>),
     PyList(<<PyNone, Category("str", 1)>>)}

ScaleCalls ==
    {[DefaultArgs EXCEPT !.scale_protein = TRUE, !.transform_batch = tb,
                         !.protein_list = pl,
                         !.include_protein_background = bg,
                         !.n_samples = n, !.return_mean = rm,
                         !.batch_size = bs] :
        tb \in ScaleConditions, pl \in ProteinLists, bg \in BOOLEAN,
        n \in SampleCounts, rm \in BOOLEAN, bs \in BatchSizes}
    \cup
    {[DefaultArgs EXCEPT !.scale_protein = TRUE, !.transform_batch = tb,
                         !.protein_list = pl,
                         !.include_protein_background = bg,
                         !.sample_protein_mixing = TRUE,
                         !.indices = PyList(<<c>>)] :
        tb \in ScaleConditions, pl \in ProteinLists, bg \in BOOLEAN,
        c \in {0, NCells - 1}}
    \cup
    {[DefaultArgs EXCEPT !.scale_protein = TRUE, !.protein_list = pl,
                         !.include_protein_background = bg,
                         !.sample_protein_mixing = TRUE,
                         !.n_samples = 2, !.return_mean = rm,
                         !.indices = PyList(<<0>>)] :
        pl \in ProteinLists, bg \in BOOLEAN, rm \in BOOLEAN}

InitScale == InitWith(ScaleCalls)
NextScale == GneBegin \/ GneMinibatch \/ GneReturn
SpecScale == InitScale /\ [][NextScale]_vars

\* the mixing used for row i, condition j, sample s, protein q
MixingUsed(i, j, s, q) ==
    IF args.sample_protein_mixing THEN DrawAt(i, j, s, q)
    ELSE Sigmoid(PyMixing(indices[i], transform_batch[j], s, q))

\* the unscaled per-condition total over a set of proteins
RawTotal(i, j, s, cols) ==
    RSum([x \in DOMAIN cols |->
             ProteinRaw(indices[i], transform_batch[j], s, cols[x],
                        MixingUsed(i, j, s, cols[x]))])

AllProteins == [q \in Proteins |-> q]
SelectedProteins == Columns(ProteinMask(args.protein_list), NProteins)

\* the share of the selected proteins in the per-condition total
Share(i, j, s) ==
    IF RawTotal(i, j, s, AllProteins) = RZero THEN RZero
    ELSE RDiv(RawTotal(i, j, s, SelectedProteins),
              RawTotal(i, j, s, AllProteins))

MeanShare(i, s) == Mean([j \in DOMAIN transform_batch |-> Share(i, j, s)])

\* the sums across the returned protein columns of row i, one per sample
\* kept
RowSums(i) ==
    LET row == ret.protein.values[i]
    IN  IF args.n_samples > 1 /\ ~args.return_mean
        THEN [s \in 1 .. args.n_samples |->
                 RSum([x \in DOMAIN row |-> row[x][s]])]
        ELSE <<RSum(row)>>

ExpectedRowSums(i) ==
    IF args.n_samples = 1 THEN <<MeanShare(i, 1)>>
    ELSE IF args.return_mean
    THEN <<Mean([s \in 1 .. args.n_samples |-> MeanShare(i, s)])>>
    ELSE [s \in 1 .. args.n_samples |-> MeanShare(i, s)]

NoZeroVector(i) ==
    \A j \in DOMAIN transform_batch : \A s \in 1 .. args.n_samples :
        RawTotal(i, j, s, AllProteins) # RZero

(***************************************************************************)
(* C5 as stated: with scale_protein=True the returned protein values of    *)
(* each cell (and sample) sum to 1 across the returned columns, for every  *)
(* combination of the other options.                                       *)
(***************************************************************************)
C5_AsStated ==
    (pc = "done" /\ args.routine = GNE /\ args.scale_protein) =>
        \A i \in DOMAIN indices :
            \A t \in DOMAIN RowSums(i) : RowSums(i)[t] = ROne

(***************************************************************************)
(* C5 amended.  Each per-condition protein vector is scaled over all       *)
(* proteins before the columns are selected and the conditions averaged:   *)
(* the returned values of a cell (and sample) sum to the mean over the     *)
(* conditions (and samples, when averaged) of the selected proteins' share *)
(* of the per-condition total.  The sum lies in [0, 1], and it is 1 when   *)
(* protein_list is None and no per-condition vector is all zero.           *)
(***************************************************************************)
C5_ScaledSum ==
    (pc = "done" /\ args.routine = GNE /\ args.scale_protein) =>
        \A i \in DOMAIN indices :
            /\ RowSums(i) = ExpectedRowSums(i)
            /\ \A t \in DOMAIN RowSums(i) : InUnitInterval(RowSums(i)[t])
            /\ (args.protein_list = PyNone /\ NoZeroVector(i)) =>
                   \A t \in DOMAIN RowSums(i) : RowSums(i)[t] = ROne

C5_Witness ==
    /\ pc = "done"
    /\ args.routine = GNE
    /\ args.scale_protein
    /\ args.sample_protein_mixing
    /\ args.protein_list = PyNone
    /\ Len(transform_batch) > 1
    /\ NoZeroVector(1)
    /\ RowSums(1) = <<ROne>>

(***************************************************************************)
(* C7.  In _get_totalvi_protein_priors every category of the grouping      *)
(* variable that has no cell gets mean 0 and scale 1 in every row of the   *)
(* returned matrices, with or without a mask and whatever the mask marks   *)
(* for it, and no mixture is fitted for it.                                *)
(***************************************************************************)
Categories == 0 .. NumCategories - 1
PriorsReturned == ret.type = "priors" /\ ret.mean.t = "ndarray"
Column(matrix, b) == [p \in DOMAIN matrix.v |-> matrix.v[p][b + 1]]
Constant(x, n) == [p \in 1 .. n |-> x]
FewMarked(b) ==
    cargs.mask.t = "mask" /\ Cardinality(cargs.mask.v[b + 1]) < 5

C7_EmptyCategory ==
    \A b \in Categories :
        NumInBatch(b) = 0 =>
            /\ b < Len(fits) => fits[b + 1] = 0
            /\ PriorsReturned =>
                   /\ Column(ret.mean, b) = Constant(RZero, cargs.n_proteins)
                   /\ Column(ret.scale, b) =
                          Constant(Sqrt(ROne), cargs.n_proteins)

C7_Witness ==
    /\ pc = "done"
    /\ PriorsReturned
    /\ \E b \in Categories : NumInBatch(b) = 0 /\ FewMarked(b)
    /\ \E b \in Categories : fits[b + 1] > 0

(***************************************************************************)
(* C8.  Every non-empty batch with fewer than 5 usable proteins gets mean  *)
(* 0.0 and scale 0.05 and no mixture is fitted for it, both when a mask    *)
(* restricts the proteins and when no mask is registered and the dataset   *)
(* has fewer than 5 proteins.                                              *)
(***************************************************************************)
UsableProteins(b) ==
    IF cargs.mask.t = "mask" THEN Cardinality(cargs.mask.v[b + 1])
    ELSE cargs.n_proteins

C8_TooFewProteins ==
    \A b \in Categories :
        (NumInBatch(b) > 0 /\ UsableProteins(b) < 5) =>
            /\ b < Len(fits) => fits[b + 1] = 0
            /\ PriorsReturned =>
                   /\ Column(ret.mean, b) = Constant(RZero, cargs.n_proteins)
                   /\ Column(ret.scale, b) =
                          Constant(Sqrt(Rat(1, 400)), cargs.n_proteins)

(***************************************************************************)
(* C9.  _get_totalvi_protein_priors propagates no exception: whatever the  *)
(* counts, the batch assignment and the mask, once it is entered it does   *)
(* not end by raising.                                                     *)
(***************************************************************************)
C9_NoException == estimator_calls > 0 => pc # "raised"

(***************************************************************************)
(* C10.  The constructor invokes the prior estimator exactly when the      *)
(* flag is truthy, or None with more than 10 registered proteins, and the  *)
(* minified data type is not latent-posterior; otherwise the estimator is  *)
(* not invoked and the module is given None for prior mean and scale.      *)
(***************************************************************************)
ShouldRun ==
    LET flag == cargs.empirical_protein_background_prior
    IN  /\ \/ flag \in {PyBool(TRUE), PyStr(1)}
           \/ flag = PyNone /\ cargs.n_proteins > 10
        /\ cargs.minified_data_type # "latent_posterior_parameters"

C10_EstimatorRuns ==
    cargs.entry = "constructor" =>
        /\ pc = "prior" => ShouldRun
        /\ pc \notin {"init", "prior"} =>
               estimator_calls = IF ShouldRun THEN 1 ELSE 0
        /\ pc = "constructed" =>
               IF ShouldRun
               THEN /\ module.protein_background_prior_mean.t = "ndarray"
                    /\ module.protein_background_prior_scale.t = "ndarray"
               ELSE /\ module.protein_background_prior_mean = PyNone
                    /\ module.protein_background_prior_scale = PyNone

C10_Witness ==
    /\ pc = "constructed"
    /\ cargs.empirical_protein_background_prior = PyNone
    /\ cargs.n_proteins = 11
    /\ estimator_calls = 1
    /\ module.protein_background_prior_mean.t = "ndarray"

(***************************************************************************)
(* Calls of differential_expression and of _expression_for_de.             *)
(***************************************************************************)
UseFields ==
    {PyNone} \cup {PyList(q) : q \in {<<"rna", "protein">>, <<"protein", "rna">>,
                                      <<"rna">>, <<"protein">>, <<>>}}
PriorCounts == {PyNone, PyFloat(RInt(3))}

DECalls ==
    {[DefaultArgs EXCEPT !.routine = r, !.use_field = u,
                         !.protein_prior_count = c, !.data = d,
                         !.scale_protein = sp, !.indices = ix] :
        r \in {DE, EXPR}, u \in UseFields, c \in PriorCounts,
        d \in {"ok", "not_counts", "no_protein"}, sp \in BOOLEAN,
        ix \in {PyNone, PyList(<<NCells - 1, 0>>)}}

InitDE == InitWith(DECalls)
NextDE ==
    \/ DeBegin \/ ExprBegin \/ ExprReturn
    \/ GneBegin \/ GneMinibatch \/ GneReturn
SpecDE == InitDE /\ [][NextDE]_vars

Joined == de # NoValue /\ de.stage = "returned"
Uses(modality) == In(modality, UseField(de.args.use_field))
NotPassed == de.args.protein_prior_count.t = "none"

\* the joint matrix for the prior count c: the normalized genes as they
\* are, then the normalized proteins with c added to each entry
ExpectedJoint(c) ==
    LET genes == ExpectedGenes(indices, transform_batch)
        proteins == ExpectedProteins(indices, transform_batch)
    IN  [i \in 1 .. Len(indices) |->
            genes[i] \o [x \in DOMAIN proteins[i] |-> RAdd(proteins[i][x], c)]]

(***************************************************************************)
(* C11 as stated.  The joint matrix is [normalized genes | normalized      *)
(* proteins + c], and c is 0.5 when the caller of differential_expression  *)
(* does not pass protein_prior_count.                                      *)
(***************************************************************************)
C11_AsStated ==
    Joined =>
        ret.values = ExpectedJoint(IF NotPassed THEN Rat(1, 2)
                                   ELSE de.args.protein_prior_count.v)

(***************************************************************************)
(* C11.  The joint matrix is [normalized genes | normalized proteins + c]: *)
(* c is added to every protein entry and to no gene entry.  When           *)
(* protein_prior_count is not passed, c is 0.1 in a call of                *)
(* differential_expression, and 0.5 only in a direct call of               *)
(* _expression_for_de.                                                     *)
(***************************************************************************)
C11_PriorCount ==
    Joined =>
        ret.values = ExpectedJoint(
            IF ~NotPassed THEN de.args.protein_prior_count.v
            ELSE IF de.routine = DE THEN Rat(1, 10) ELSE Rat(1, 2))

C11_Witness ==
    /\ Joined
    /\ de.routine = DE
    /\ NotPassed
    /\ Uses("rna") /\ Uses("protein")
    /\ Len(ret.values) = NCells
    /\ ret.values[1][NGenes + 1] =
           RAdd(ExpectedProteins(indices, transform_batch)[1][1], Rat(1, 10))

(***************************************************************************)
(* C12.  For each use_field (RNA and protein, RNA only, protein only) the  *)
(* feature names handed to the DE core are as many as the columns of the   *)
(* joint matrix and in the same order: the gene names, unsuffixed, name    *)
(* the gene columns, then the protein names with "_protein" appended name  *)
(* the protein columns; a modality not in use gives no column and no name. *)
(***************************************************************************)
C12_NamesMatchColumns ==
    (Joined /\ de.routine = DE) =>
        LET ng == IF Uses("rna") THEN NGenes ELSE 0
            np == IF Uses("protein") THEN NProteins ELSE 0
            genes == ExpectedGenes(indices, transform_batch)
            proteins == ExpectedProteins(indices, transform_batch)
        IN  /\ Len(ret.columns) = ng + np
            /\ \A i \in DOMAIN ret.values : Len(ret.values[i]) = ng + np
            /\ \A g \in 1 .. ng :
                  /\ ret.columns[g] = VarNames[g]
                  /\ \A i \in DOMAIN ret.values :
                        ret.values[i][g] = genes[i][g]
            /\ \A p \in 1 .. np :
                  /\ ret.columns[ng + p] = Suffixed(ProteinNames[p])
                  /\ \A i \in DOMAIN ret.values :
                        ret.values[i][ng + p] =
                            RAdd(proteins[i][p], de.protein_prior_count)

C12_Witness ==
    /\ Joined
    /\ de.routine = DE
    /\ ~Uses("rna")
    /\ Uses("protein")
    /\ ret.columns = [p \in Proteins |-> Suffixed(ProteinNames[p])]
    /\ Len(ret.values) = 2
    /\ Len(ret.values[1]) = NProteins

(***************************************************************************)
(* Calls of posterior_predictive_sample on modules of either gene          *)
(* likelihood and on data of every kind.                                   *)
(***************************************************************************)
DataKinds == {"ok", "not_counts", "no_protein", "n_proteins_differ"}
GeneLikelihoods == {"nb", "zinb"}

PpsCalls ==
    {[DefaultArgs EXCEPT !.routine = PPS, !.gene_likelihood = gl, !.data = d,
                         !.n_samples = n, !.batch_size = bs, !.indices = ix,
                         !.gene_list = gs, !.protein_list = ps] :
        gl \in GeneLikelihoods, d \in DataKinds, n \in SampleCounts,
        bs \in BatchSizes, ix \in {PyNone, PyList(<<NCells - 1, 0>>)},
        gs \in {PyNone, NameList({VarNames[NGenes]})},
        ps \in {PyNone, NameList({ProteinNames[1]})}}

InitPPS == InitWith(PpsCalls)
NextPPS == PpsBegin \/ PpsMinibatch \/ PpsReturn
SpecPPS == InitPPS /\ [][NextPPS]_vars

(***************************************************************************)
(* C13.  posterior_predictive_sample raises ValueError whenever the gene   *)
(* likelihood of the module is not "nb", and it does so before the data is *)
(* validated (no warning about the data is emitted), before a data loader  *)
(* yields a minibatch and before the sampler is invoked.                   *)
(***************************************************************************)
C13_LikelihoodCheckedFirst ==
    (args.routine = PPS /\ args.gene_likelihood # "nb") =>
        /\ pc \in {"start", "raised"}
        /\ pc = "raised" => ret = Raise("ValueError")
        /\ warned = <<>>
        /\ calls = <<>>
        /\ pos = 0
        /\ rna_list = <<>> /\ pro_list = <<>>

C13_Witness ==
    /\ args.routine = PPS
    /\ args.gene_likelihood = "zinb"
    /\ args.data = "not_counts"
    /\ pc = "raised"
    /\ ret = Raise("ValueError")
    /\ warned = <<>>

(***************************************************************************)
(* Calls of each estimation routine that validates its data, on data of    *)
(* every kind, on trained and untrained models.                            *)
(***************************************************************************)
Validating == {GLLS, GNE, GPFP, PPS, DEN, GFCM, GPBM, DE}

ValidateCalls ==
    {[DefaultArgs EXCEPT !.routine = r, !.data = d, !.is_trained = tr,
                         !.n_samples = n, !.gene_likelihood = gl] :
        r \in Validating, d \in DataKinds, tr \in BOOLEAN,
        n \in SampleCounts, gl \in GeneLikelihoods}

InitValidate == InitWith(ValidateCalls)
NextValidate ==
    \/ GllsBegin \/ GllsMinibatch \/ GllsReturn
    \/ GneBegin \/ GneMinibatch \/ GneReturn
    \/ GpfpBegin \/ GpfpMinibatch \/ GpfpReturn
    \/ PpsBegin \/ PpsMinibatch \/ PpsReturn
    \/ DenBegin \/ DenSample
    \/ GfcmBegin \/ GfcmCondition \/ GfcmReturn
    \/ GpbmBegin \/ GpbmMinibatch \/ GpbmReturn
    \/ DeBegin \/ ExprReturn
SpecValidate == InitValidate /\ [][NextValidate]_vars

Rejected == args.data \in {"no_protein", "n_proteins_differ"}
NothingLoaded ==
    /\ calls = <<>>
    /\ pos = 0
    /\ rna_list = <<>> /\ background_mean = <<>> /\ libraries = <<>>
    /\ scale_list_gene = <<>> /\ py_mixings = <<>> /\ corr_mats = <<>>
CountWarning == \E k \in DOMAIN warned : warned[k] = "UserWarning: counts"

\* a check that precedes the validation and raises
RaisesBeforeValidation ==
    \/ args.routine = GLLS /\ ~args.is_trained
    \/ args.routine = PPS /\ args.gene_likelihood # "nb"

(***************************************************************************)
(* C14 as stated.  Each of the eight routines raises ValueError, before a  *)
(* minibatch is loaded or the module invoked, when the protein data is not *)
(* registered or has another number of columns; on protein data that is    *)
(* not counts it only warns and goes on to the module.                     *)
(***************************************************************************)
C14_AsStated ==
    /\ Rejected =>
          /\ pc \in {"start", "raised"}
          /\ pc = "raised" => ret = Raise("ValueError")
          /\ NothingLoaded
    /\ (args.data = "not_counts" /\ pc # "start") =>
          /\ CountWarning
          /\ pc = "raised" => ~NothingLoaded

(***************************************************************************)
(* C14.  Where no earlier check raises (get_latent_library_size on an      *)
(* untrained model raises RuntimeError, posterior_predictive_sample on a   *)
(* module that is not "nb" raises its own ValueError), each of the eight   *)
(* routines raises ValueError, before a minibatch is loaded or the module  *)
(* invoked, when the protein data is not registered or has another number  *)
(* of columns, and on protein data that is not counts it warns and goes on *)
(* to the module.  Where an earlier check raises, the call ends there,     *)
(* without a warning and with nothing loaded.                              *)
(***************************************************************************)
C14_ValidationFirst ==
    /\ (Rejected /\ ~RaisesBeforeValidation) =>
          /\ pc \in {"start", "raised"}
          /\ pc = "raised" => ret = Raise("ValueError")
          /\ NothingLoaded
          /\ warned = <<>>
    /\ (args.data = "not_counts" /\ ~RaisesBeforeValidation /\ pc # "start") =>
          /\ CountWarning
          /\ pc = "raised" => ~NothingLoaded
    /\ RaisesBeforeValidation =>
          /\ pc \in {"start", "raised"}
          /\ pc = "raised" =>
                ret = Raise(IF args.routine = GLLS THEN "RuntimeError"
                            ELSE "ValueError")
          /\ NothingLoaded
          /\ warned = <<>>

C14_Witness ==
    /\ args.routine = GPBM
    /\ args.data = "n_proteins_differ"
    /\ pc = "raised"
    /\ ret = Raise("ValueError")
    /\ NothingLoaded

(***************************************************************************)
(* Sequences of estimation calls on one trained model.                     *)
(***************************************************************************)
SequenceCalls ==
    {[DefaultArgs EXCEPT !.routine = r, !.n_samples = MaxSamples,
                         !.return_mean = FALSE] :
        r \in {GLLS, GNE, GPFP, PPS, DEN, GFCM, GPBM, DE}}
    \cup {[DefaultArgs EXCEPT !.routine = GNE, !.library_size = Latent,
                              !.data = "not_counts"],
          [DefaultArgs EXCEPT !.routine = GPBM, !.indices = PyList(<<1, 0>>),
                              !.batch_size = 1],
          [DefaultArgs EXCEPT !.routine = PPS, !.data = "no_protein"]}

InitSequence == InitWith(SequenceCalls)
NextSequence ==
    \/ GllsBegin \/ GllsMinibatch \/ GllsReturn
    \/ GneBegin \/ GneMinibatch \/ GneReturn
    \/ GpfpBegin \/ GpfpMinibatch \/ GpfpReturn
    \/ PpsBegin \/ PpsMinibatch \/ PpsReturn
    \/ DenBegin \/ DenSample
    \/ GfcmBegin \/ GfcmCondition \/ GfcmReturn
    \/ GpbmBegin \/ GpbmMinibatch \/ GpbmReturn
    \/ DeBegin \/ ExprReturn
    \/ NextCall(SequenceCalls)
SpecSequence == InitSequence /\ [][NextSequence]_vars

\* the background rates of the cells idx under the parameters the model
\* was trained to
TrainedBackground(idx) ==
    [i \in DOMAIN idx |-> [p \in Proteins |->
        RInt(1 + ((idx[i] + ObsBatch(idx[i]) + p) % 2))]]

(***************************************************************************)
(* C15.  Through any sequence of calls of the estimation routines the      *)
(* model object stays as it was after training: the module's parameters,   *)
(* the protein registry, the missing-protein flag, the modalities and the  *)
(* init params.  What a later call reads does not depend on the calls      *)
(* before it: get_protein_background_mean returns the trained background   *)
(* rates of the cells asked for, whatever was called earlier.              *)
(***************************************************************************)
C15_ModelUnchanged ==
    /\ model = BuiltModel(0)
    /\ (args.routine = GPBM /\ pc = "done") =>
           ret = NdArray(TrainedBackground(indices))

C15_Witness ==
    /\ history = <<GFCM, PPS>>
    /\ args.routine = GPBM
    /\ args.indices = PyList(<<1, 0>>)
    /\ pc = "done"
    /\ ret = NdArray(TrainedBackground(<<1, 0>>))
    /\ model = BuiltModel(0)

(***************************************************************************)
(* Calls of get_normalized_expression with each kind of library_size.      *)
(***************************************************************************)
LibrarySizes == {PyInt(1), PyInt(10), Latent}

LibraryCalls ==
    {[DefaultArgs EXCEPT !.library_size = L, !.n_samples = n,
                         !.return_mean = rm, !.batch_size = bs,
                         !.indices = ix, !.transform_batch = tb] :
        L \in LibrarySizes, n \in SampleCounts, rm \in BOOLEAN,
        bs \in BatchSizes, ix \in {PyNone, PyList(<<NCells - 1, 0>>)},
        tb \in {PyNone, PyList(<<Category("str", 0), PyNone>>)}}

InitLibrary == InitWith(LibraryCalls)
NextLibrary == GneBegin \/ GneMinibatch \/ GneReturn
SpecLibrary == InitLibrary /\ [][NextLibrary]_vars

\* the gene value of cell c, gene g, sample s: the mean over the conditions
\* of the rate, or of library_size times the scale
ScaledGene(c, g, s) ==
    Mean([j \in DOMAIN transform_batch |->
        IF args.library_size.t = "latent"
        THEN PxRate(c, transform_batch[j], s, g)
        ELSE RMul(RInt(args.library_size.v),
                  PxScale(c, transform_batch[j], s, g))])

(***************************************************************************)
(* C16.  In get_normalized_expression the gene output is the module's rate *)
(* when library_size is "latent", and otherwise the normalized scale       *)
(* brought to the requested library size: for a number L the gene values   *)
(* are L times the values for library_size 1.                              *)
(***************************************************************************)
C16_LibrarySize ==
    (args.routine = GNE /\ pc = "done") =>
        LET n == args.n_samples
            vals == ret.gene.values
        IN  \A i \in DOMAIN vals : \A g \in Genes :
                vals[i][g] =
                    IF n = 1 THEN ScaledGene(indices[i], g, 1)
                    ELSE IF args.return_mean
                    THEN Mean([s \in 1 .. n |-> ScaledGene(indices[i], g, s)])
                    ELSE [s \in 1 .. n |-> ScaledGene(indices[i], g, s)]

(***************************************************************************)
(* Calls of get_feature_correlation_matrix on the model's own dataset and  *)
(* on another dataset.                                                     *)
(***************************************************************************)
CorrelationCalls ==
    {[DefaultArgs EXCEPT !.routine = GFCM, !.adata = ad, !.indices = ix,
                         !.n_samples = n, !.transform_batch = tb,
                         !.correlation_type = k, !.log_transform = lg,
                         !.batch_size = bs] :
        ad \in {"none", "other"},
        ix \in {PyNone, PyList(<<NCells - 1, 0>>)}, n \in SampleCounts,
        tb \in {PyNone, PyList(<<Category("str", 0), PyNone>>)},
        k \in {"spearman", "pearson"}, lg \in BOOLEAN, bs \in BatchSizes}

InitCorrelation == InitWith(CorrelationCalls)
NextCorrelation == GfcmBegin \/ GfcmCondition \/ GfcmReturn
SpecCorrelation == InitCorrelation /\ [][NextCorrelation]_vars

(***************************************************************************)
(* C17.  get_feature_correlation_matrix draws its denoised samples from    *)
(* the cells of the dataset passed as adata, restricted to indices: every  *)
(* minibatch the module is invoked on holds cells of that dataset (of the  *)
(* model's own dataset only when adata is None).                           *)
(***************************************************************************)
C17_SamplesFromPassedData ==
    args.routine = GFCM =>
        \A k \in DOMAIN calls :
            Range(calls[k].cells) \subseteq Range(CellsOf(args.adata, indices))

\* the row of (cell i, sample s) in the matrix the j-th correlation is
\* computed over
DenoisedRow(j, i, s) ==
    LET data == GetDenoisedSamples(CellsOf("none", indices), args.n_samples,
                    args.rna_size_factor, transform_batch[j], j)
        row == [f \in DOMAIN data[i] |-> data[i][f][s]]
    IN  IF args.log_transform THEN LogTransform(<<row>>)[1] ELSE row

SampleCalls ==
    {[DefaultArgs EXCEPT !.routine = r, !.n_samples = n, !.return_mean = rm,
                         !.return_numpy = rn, !.indices = ix,
                         !.batch_size = bs, !.gene_list = gs,
                         !.protein_list = ps] :
        r \in {GNE, GPFP, PPS}, n \in SampleCounts, rm \in BOOLEAN,
        rn \in ReturnNumpyInputs, ix \in {PyNone, PyList(<<NCells - 1, 0>>)},
        bs \in BatchSizes, gs \in {PyNone, NameList({VarNames[NGenes]})},
        ps \in {PyNone, NameList({ProteinNames[1]})}}

InitSamples == InitWith(SampleCalls)
NextSamples ==
    \/ GneBegin \/ GneMinibatch \/ GneReturn
    \/ GpfpBegin \/ GpfpMinibatch \/ GpfpReturn
    \/ PpsBegin \/ PpsMinibatch \/ PpsReturn
SpecSamples == InitSamples /\ [][NextSamples]_vars

SamplesKept ==
    /\ pc = "done"
    /\ args.n_samples > 1
    /\ args.routine = PPS \/ ~args.return_mean
GeneColumns == Columns(GeneMask(args.gene_list), NGenes)
ProteinColumns == Columns(ProteinMask(args.protein_list), NProteins)

\* the arrays a call returned, with the columns each is about
Returned ==
    IF args.routine = GNE
    THEN <<[a |-> ret.gene.values, cols |-> GeneColumns, of |-> "gene"],
           [a |-> ret.protein.values, cols |-> ProteinColumns,
            of |-> "protein"]>>
    ELSE IF args.routine = GPFP
    THEN <<[a |-> ret.values, cols |-> ProteinColumns, of |-> "foreground"]>>
    ELSE <<[a |-> ret.rna, cols |-> GeneColumns, of |-> "rna"],
           [a |-> ret.protein, cols |-> ProteinColumns, of |-> "pro"]>>

\* the value of sample s, cell c, feature f in the output named
SampleValue(name, c, f, s) ==
    CASE name = "gene" -> PxScale(c, PyNone, s, f)
      [] name = "protein" ->
             RMul(PyRateFore(c, PyNone, s, f),
                  RSub(ROne, Sigmoid(PyMixing(c, PyNone, s, f))))
      [] name = "foreground" -> RSub(ROne, Sigmoid(PyMixing(c, PyNone, s, f)))
      [] name = "rna" -> SampleEntry("rna", c, s, f)
      [] OTHER -> SampleEntry("protein", c, s, f)

Rank2(A, rows, ncols) ==
    /\ Len(A) = rows
    /\ \A r \in DOMAIN A : Len(A[r]) = ncols /\ \A x \in DOMAIN A[r] :
          DOMAIN A[r][x] = 1 .. 2 /\ A[r][x][1] \in Int
Rank3(A, d1, d2, d3) ==
    /\ Len(A) = d1
    /\ \A x \in DOMAIN A :
          /\ Len(A[x]) = d2
          /\ \A y \in DOMAIN A[x] :
                Len(A[x][y]) = d3 /\ \A z \in DOMAIN A[x][y] :
                    A[x][y][z][1] \in Int
Documented == args.routine \in {GNE, GPFP} /\ pc = "done"
Labeled(r) ==
    IF r.type = "tuple"
    THEN r.gene.type = "DataFrame" /\ r.protein.type = "DataFrame"
    ELSE r.type = "DataFrame"
DefaultReturnType ==
    args.return_numpy = PyNone =>
        (Labeled(ret) <=> (args.n_samples = 1 \/ args.return_mean))

NothingRun ==
    /\ indices = <<>>
    /\ return_numpy = PyNone
    /\ transform_batch = <<>>
    /\ pos = 0
    /\ scale_list_gene = <<>>
    /\ scale_list_pro = <<>>
    /\ py_mixings = <<>>
    /\ libraries = <<>>
    /\ corr_mats = <<>>
    /\ calls = <<>>
    /\ draws = <<>>
    /\ ret = NoValue
    /\ next_b = 0
    /\ batch_avg_mus = <<>>
    /\ batch_avg_scales = <<>>
    /\ fits = <<>>
    /\ estimator_calls = 0
    /\ de = NoValue
    /\ rna_list = <<>>
    /\ pro_list = <<>>
    /\ background_mean = <<>>
    /\ history = <<>>
    /\ sampled_cells = <<>>
    /\ mus = <<>>
    /\ scales = <<>>
    /\ plan_kwargs = NoValue
    /\ training_plan = NoValue
    /\ runner = NoValue

WeightDecay == [k \in {"weight_decay"} |-> PyFloat(Rat(1, 1000000))]
OwnLr == [k \in {"lr", "weight_decay"} |->
             IF k = "lr" THEN PyFloat(Rat(1, 10)) ELSE PyFloat(Rat(1, 1000000))]
OwnEverything ==
    [k \in UpdateKeys \cup {"n_epochs_adversarial_warmup"} |->
        CASE k = "lr" -> PyFloat(Rat(1, 10))
          [] k = "adversarial_classifier" -> PyStr("auto")
          [] k = "reduce_lr_on_plateau" -> PyBool(FALSE)
          [] k = "n_epochs_kl_warmup" -> PyInt(11)
          [] k = "n_steps_kl_warmup" -> PyInt(13)
          [] OTHER -> PyInt(17)]
PlanKwargsChoices ==
    {PyNone, PyDict(<<>>), PyDict(WeightDecay), PyDict(OwnLr),
     PyDict(OwnEverything)}

TrainCalls ==
    [routine : {TRAIN},
     n_obs : {NCells, 2 * NCells},
     max_epochs : {PyNone},
     lr : {PyFloat(Rat(4, 1000)), PyFloat(Rat(1, 100))},
     early_stopping : BOOLEAN,
     check_val_every_n_epoch : {PyNone, PyInt(5)},
     reduce_lr_on_plateau : BOOLEAN,
     n_steps_kl_warmup : {PyNone, PyInt(7)},
     n_epochs_kl_warmup : {PyNone, PyInt(3)},
     adversarial_classifier : {PyNone, PyBool(TRUE), PyBool(FALSE)},
     plan_kwargs : PlanKwargsChoices]

InitTrain ==
    /\ args \in TrainCalls
    /\ pc = "constructed"
    /\ \E flag \in BOOLEAN :
          model = [BuiltModel(0) EXCEPT !.use_adversarial_classifier = flag]
    /\ heap = CallerHeap(args)
    /\ cargs = DefaultCtorArgs
    /\ module = NoValue
    /\ warned = <<>>
    /\ NothingRun
NextTrain == Train
SpecTrain == InitTrain /\ [][NextTrain]_vars

Trained == args.routine = TRAIN /\ pc = "done"
Given == args.plan_kwargs.t # "none"
OtherKeys == IF Given THEN (DOMAIN args.plan_kwargs.v) \ UpdateKeys ELSE {}
Passed == training_plan.kwargs

\* the largest integer that is at most three quarters of n
ThreeQuarters(n) == CHOOSE q \in 0 .. n : 4 * q <= 3 * n /\ 3 * n < 4 * (q + 1)

\* C21: the training plan is built with train()'s own lr,
\* adversarial_classifier, reduce_lr_on_plateau, n_epochs_kl_warmup and
\* n_steps_kl_warmup (floor(0.75 * n_obs) when it is None), whatever
\* plan_kwargs held under those keys, and with every other key of plan_kwargs
\* as the caller gave it.
C21_OwnArgumentsWin ==
    Trained =>
        /\ DOMAIN Passed = UpdateKeys \cup OtherKeys
        /\ Passed["lr"] = args.lr
        /\ Passed["adversarial_classifier"] =
              (IF args.adversarial_classifier = PyNone
               THEN PyBool(model.use_adversarial_classifier)
               ELSE args.adversarial_classifier)
        /\ Passed["reduce_lr_on_plateau"] = PyBool(args.reduce_lr_on_plateau)
        /\ Passed["n_epochs_kl_warmup"] = args.n_epochs_kl_warmup
        /\ Passed["n_steps_kl_warmup"] =
              (IF args.n_steps_kl_warmup = PyNone
               THEN PyInt(ThreeQuarters(args.n_obs))
               ELSE args.n_steps_kl_warmup)
        /\ \A k \in OtherKeys : Passed[k] = args.plan_kwargs.v[k]

C21_Witness ==
    /\ Trained
    /\ args.plan_kwargs = PyDict(OwnEverything)
    /\ args.n_steps_kl_warmup = PyNone
    /\ Passed["n_steps_kl_warmup"] = PyInt((3 * args.n_obs) \div 4)
    /\ Passed["lr"] = PyFloat(Rat(4, 1000))
    /\ Passed["n_epochs_adversarial_warmup"] = PyInt(17)

HandedOver == runner.check_val_every_n_epoch

ItemsGiven == args.plan_kwargs.v
ItemsNow == heap[CallerObject].items

\* C30: when train is given a plan_kwargs dict, the five training-plan keys
\* are written into that very object, which is the one the training plan is
\* built from, so the caller's dict is changed by the call (its other keys
\* stay); when plan_kwargs is None the dict used is update_dict, a new object,
\* and no object of the caller exists or is touched.
C30_CallerDictUpdatedInPlace ==
    Trained =>
        IF Given
        THEN /\ plan_kwargs = PyRef(CallerObject)
             /\ DOMAIN ItemsNow = (DOMAIN ItemsGiven) \cup UpdateKeys
             /\ \A k \in UpdateKeys :
                   ItemsNow[k] = heap[UpdateDictObject].items[k]
             /\ \A k \in (DOMAIN ItemsGiven) \ UpdateKeys :
                   ItemsNow[k] = ItemsGiven[k]
             /\ Passed = ItemsNow
        ELSE /\ plan_kwargs = PyRef(UpdateDictObject)
             /\ DOMAIN heap = {UpdateDictObject}
             /\ Passed = heap[UpdateDictObject].items

C30_Witness ==
    /\ Trained
    /\ Given
    /\ ItemsGiven = WeightDecay
    /\ ItemsNow # ItemsGiven
    /\ ItemsNow["lr"] = args.lr
    /\ plan_kwargs = PyRef(CallerObject)

(***************************************************************************)
(* Construction followed by train.                                         *)
(***************************************************************************)
DefaultTrainArgs ==
    [routine |-> TRAIN, n_obs |-> NCells, max_epochs |-> PyNone,
     lr |-> PyFloat(Rat(4, 1000)), early_stopping |-> TRUE,
     check_val_every_n_epoch |-> PyNone, reduce_lr_on_plateau |-> TRUE,
     n_steps_kl_warmup |-> PyNone, n_epochs_kl_warmup |-> PyNone,
     adversarial_classifier |-> PyNone, plan_kwargs |-> PyNone]

ConstructedTrainCalls ==
    {[DefaultTrainArgs EXCEPT !.adversarial_classifier = ac,
                              !.plan_kwargs = pk] :
        ac \in {PyNone, PyBool(TRUE), PyBool(FALSE)},
        pk \in {PyNone, PyDict(OwnEverything)}}

\* constructions on count data that is not minified
ConstructCalls ==
    {c \in CtorCalls :
        /\ c.data = "ok"
        /\ c.minified_data_type = "none"
        /\ c.empirical_protein_background_prior \in {PyNone, PyBool(FALSE)}}

InitConstruct ==
    /\ cargs \in ConstructCalls
    /\ args \in ConstructedTrainCalls
    /\ pc = "init"
    /\ model = NoValue
    /\ module = NoValue
    /\ heap = CallerHeap(args)
    /\ warned = <<>>
    /\ NothingRun
NextConstruct ==
    \/ CtorBegin \/ CtorFinish
    \/ PriorBegin \/ PriorBatch \/ PriorReturn
    \/ Train
SpecConstruct == InitConstruct /\ [][NextConstruct]_vars

MaskRegistered == cargs.mask # NoMask
MaskInForce == MaskRegistered /\ ~cargs.override_missing_proteins
MissingProteinWarnings ==
    Len(SelectSeq(warned, LAMBDA w : w = "UserWarning: missing proteins"))
Constructed == cargs.entry = "constructor" /\ pc \in {"constructed", "done"}

\* C23: a construction on a registry that holds a protein batch mask, with
\* override_missing_proteins False, emits the missing-protein UserWarning
\* (once), hands the mask to the module and makes the adversarial classifier
\* on by default; any other construction emits no such warning, hands None as
\* the mask and makes the default off.  train uses that default exactly when
\* its adversarial_classifier is None; an explicit True or False is what the
\* training plan gets.
C23_MaskSetsAdversarialDefault ==
    /\ (cargs.entry = "constructor" /\ pc # "init") =>
          MissingProteinWarnings = (IF MaskInForce THEN 1 ELSE 0)
    /\ Constructed =>
          /\ module.protein_batch_mask =
                (IF MaskInForce THEN cargs.mask ELSE NoMask)
          /\ model.use_adversarial_classifier = MaskInForce
    /\ (Constructed /\ Trained) =>
          Passed["adversarial_classifier"] =
             (IF args.adversarial_classifier = PyNone
              THEN PyBool(MaskInForce)
              ELSE args.adversarial_classifier)

C23_Witness ==
    /\ Constructed
    /\ Trained
    /\ MaskInForce
    /\ MissingProteinWarnings = 1
    /\ module.protein_batch_mask = cargs.mask
    /\ args.adversarial_classifier = PyNone
    /\ Passed["adversarial_classifier"] = PyBool(TRUE)

(***************************************************************************)
(* The per-cell fits of the prior estimator.  mus, scales and              *)
(* sampled_cells are those of the category fitted last.                    *)
(***************************************************************************)
FittedCategories == {j \in 1 .. Len(fits) : fits[j] # 0}
LastFitted ==
    IF FittedCategories = {} THEN 0
    ELSE CHOOSE j \in FittedCategories : \A k \in FittedCategories : k <= j
\* the fit of the i-th sampled cell of that category
FitOf(i) ==
    GmmFit(Grouping[LastFitted][sampled_cells[i]],
           Cardinality(UsedProteins(LastFitted - 1)))
Lowest(f, k) == \A l \in DOMAIN f.means : RLeq(f.means[k], f.means[l])
NoOtherException ==
    \A i \in DOMAIN sampled_cells :
        FitOf(i).kind \in {"fitted", "ConvergenceWarning"}
Completed == LastFitted # 0 /\ Len(batch_avg_mus) >= LastFitted

\* C24: in _get_totalvi_protein_priors a sampled cell whose two-component
\* fit signals non-convergence adds mean 0 and scale 0.05 to the per-cell
\* lists, and a cell whose fit succeeds adds the mean and the square root of
\* the variance of the component with the lower mean; the cells sampled after
\* a non-converging one are still fitted, so a batch whose fits end either
\* way gets one entry per sampled cell and the loop goes on: non-convergence
\* of a cell never ends the batch.
C24_NonConvergenceFallback ==
    LastFitted # 0 =>
        /\ \A i \in DOMAIN mus :
              IF FitOf(i).kind = "ConvergenceWarning"
              THEN mus[i] = RZero /\ scales[i] = Sqrt(Rat(1, 400))
              ELSE \E k \in DOMAIN FitOf(i).means :
                      /\ Lowest(FitOf(i), k)
                      /\ mus[i] = FitOf(i).means[k]
                      /\ scales[i] = Sqrt(FitOf(i).covariances[k])
        /\ NoOtherException =>
              /\ Len(mus) = cargs.n_cells
              /\ Len(scales) = cargs.n_cells
              /\ Completed
              /\ pc # "raised"

C24_Witness ==
    /\ Completed
    /\ \E i, j \in DOMAIN mus :
          /\ i < j
          /\ FitOf(i).kind = "ConvergenceWarning"
          /\ FitOf(j).kind = "fitted"
          /\ mus[i] = RZero
          /\ mus[j] = RInt(2)
          /\ scales[j] = Sqrt(Rat(1, 9))

SquaredScales == [i \in DOMAIN scales |-> Square(scales[i])]

\* C25: for every batch that reaches the fitting step exactly n_cells
\* (default 100) cells are drawn, with replacement, from that batch's own
\* cells, also when the batch has fewer cells than n_cells; the per-cell
\* lists of a batch that is fitted through hold exactly n_cells entries; its
\* mean is the arithmetic mean of the per-cell means and its scale is the
\* square root of the sum of the squared per-cell scales, divided by n_cells.
C25_SampleAndAggregate ==
    LastFitted # 0 =>
        /\ DOMAIN sampled_cells = 1 .. cargs.n_cells
        /\ \A i \in DOMAIN sampled_cells :
              sampled_cells[i] \in 1 .. NumInBatch(LastFitted - 1)
        /\ \A j \in 1 .. Len(batch_avg_mus) : fits[j] \in {0, cargs.n_cells}
        /\ Completed =>
              /\ Len(mus) = cargs.n_cells
              /\ Len(scales) = cargs.n_cells
              /\ batch_avg_mus[LastFitted] =
                    RDiv(RSum(mus), RInt(cargs.n_cells))
              /\ Square(batch_avg_scales[LastFitted]) =
                    RDiv(RSum(SquaredScales),
                         RMul(RInt(cargs.n_cells), RInt(cargs.n_cells)))

\* a batch with fewer cells than n_cells, sampled at the default n_cells
C25_Witness ==
    /\ Completed
    /\ cargs.n_cells = DefaultNCells
    /\ NumInBatch(LastFitted - 1) < cargs.n_cells
    /\ Len(mus) = DefaultNCells
    /\ batch_avg_mus[LastFitted] = RInt(1)
    /\ batch_avg_scales[LastFitted] = Sqrt(Rat(1, 400))

(***************************************************************************)
(* The matrices the prior estimator returns.                               *)
(***************************************************************************)
\* the categories of the grouping variable, by code
PanelRegistered == cargs.has_panel
GroupingCategories == IF PanelRegistered THEN cargs.panel ELSE cargs.groups
FullyMarked(b) ==
    cargs.mask.t # "mask" \/ Cardinality(cargs.mask.v[b]) >= 5
AllOf(cells, profile) ==
    cells # <<>> /\ \A i \in DOMAIN cells : cells[i] = profile
RightShape(matrix) ==
    /\ Len(matrix.v) = cargs.n_proteins
    /\ \A p \in DOMAIN matrix.v :
          /\ Len(matrix.v[p]) = Len(GroupingCategories)
          /\ matrix.v[p] = matrix.v[1]

\* C26: the two matrices returned by _get_totalvi_protein_priors have one
\* row per registered protein (all of them, whatever a mask leaves) and one
\* column per category of the grouping variable, in category-code order and
\* with the empty categories included; the grouping variable is the panel when
\* one is registered and the batch otherwise, and the constructor hands the
\* matching n_panel and panel_key to the module; within a column every row
\* holds the same value.
C26_OneColumnPerCategory ==
    /\ PriorsReturned =>
          /\ RightShape(ret.mean)
          /\ RightShape(ret.scale)
          /\ \A b \in DOMAIN GroupingCategories :
                LET cells == GroupingCategories[b]
                IN  /\ cells = <<>> =>
                          /\ ret.mean.v[1][b] = RZero
                          /\ ret.scale.v[1][b] = Sqrt(ROne)
                    /\ (AllOf(cells, "low_first") /\ FullyMarked(b)) =>
                          /\ ret.mean.v[1][b] = RInt(1)
                          /\ ret.scale.v[1][b] = Sqrt(Rat(1, 4 * cargs.n_cells))
                    /\ (AllOf(cells, "high_first") /\ FullyMarked(b)) =>
                          /\ ret.mean.v[1][b] = RInt(2)
                          /\ ret.scale.v[1][b] = Sqrt(Rat(1, 9 * cargs.n_cells))
    /\ (cargs.entry = "constructor" /\ pc = "constructed") =>
          /\ module.panel_key = (IF PanelRegistered THEN "panel" ELSE "batch")
          /\ module.n_panel = (IF PanelRegistered THEN Len(cargs.panel)
                               ELSE cargs.n_batch)
          /\ module.protein_background_prior_mean # PyNone =>
                /\ Len(module.protein_background_prior_mean.v) =
                      cargs.n_proteins
                /\ \A p \in DOMAIN module.protein_background_prior_mean.v :
                      Len(module.protein_background_prior_mean.v[p]) =
                         module.n_panel

\* a panel is registered and its categories are not those of the batch: the
\* columns are the panel's
C26_Witness ==
    /\ PriorsReturned
    /\ PanelRegistered
    /\ Len(cargs.panel) # Len(cargs.groups)
    /\ Len(ret.mean.v[1]) = Len(cargs.panel)
    /\ Len(ret.mean.v) > 1

(***************************************************************************)
(* The mixing of get_normalized_expression: unscaled protein values of one *)
(* cell, with and without sampling, with and without the background.       *)
(***************************************************************************)
MixingCalls ==
    {[DefaultArgs EXCEPT !.include_protein_background = bg,
                         !.sample_protein_mixing = sm,
                         !.transform_batch = tb,
                         !.indices = PyList(<<c>>)] :
        bg \in BOOLEAN, sm \in BOOLEAN, tb \in ScaleConditions, c \in Cells}

InitMixing == InitWith(MixingCalls)
NextMixing == GneBegin \/ GneMinibatch \/ GneReturn
SpecMixing == InitMixing /\ [][NextMixing]_vars

\* the mixing used for the i-th cell, the j-th condition and protein q
MixingOf(i, j, q) ==
    IF args.sample_protein_mixing THEN DrawAt(i, j, 1, q)
    ELSE Sigmoid(PyMixing(indices[i], transform_batch[j], 1, q))

\* rate_fore * (1 - m) + rate_back * m, or the first product alone
ConditionValue(i, j, q, m) ==
    LET fore == RMul(PyRateFore(indices[i], transform_batch[j], 1, q),
                     RSub(ROne, m))
        back == RMul(PyRateBack(indices[i], transform_batch[j], 1, q), m)
    IN  IF args.include_protein_background THEN RAdd(fore, back) ELSE fore

Unscaled ==
    /\ pc = "done"
    /\ args.routine = GNE
    /\ ~args.scale_protein
    /\ args.n_samples = 1

\* C27: in get_normalized_expression the protein value of one condition is
\* rate_fore * (1 - m), plus rate_back * m exactly when
\* include_protein_background is True; m is the sigmoid of the mixing logit
\* when sample_protein_mixing is off and one Bernoulli draw, 0 or 1, when it
\* is on, and the same m is used in both products.
C27_SameMixingInBothTerms ==
    Unscaled =>
        \A i \in DOMAIN indices : \A q \in Proteins :
            /\ args.sample_protein_mixing =>
                   \A j \in DOMAIN transform_batch :
                       DrawAt(i, j, 1, q) \in {RZero, ROne}
            /\ ~args.sample_protein_mixing =>
                   \A m \in DOMAIN draws : draws[m] = <<>>
            /\ ret.protein.values[i][q] =
                   Mean([j \in DOMAIN transform_batch |->
                            ConditionValue(i, j, q, MixingOf(i, j, q))])

\* a sampled call with the background included in which one protein drew 1
\* and another drew 0
C27_Witness ==
    /\ Unscaled
    /\ args.sample_protein_mixing
    /\ args.include_protein_background
    /\ Len(transform_batch) = 1
    /\ \E q, r \in Proteins :
          /\ DrawAt(1, 1, 1, q) = ROne
          /\ DrawAt(1, 1, 1, r) = RZero
          /\ ret.protein.values[1][q] =
                PyRateBack(indices[1], transform_batch[1], 1, q)
          /\ ret.protein.values[1][r] =
                PyRateFore(indices[1], transform_batch[1], 1, r)

(***************************************************************************)
(* The same request at every minibatch size.                               *)
(***************************************************************************)
BatchSizeCalls ==
    {[DefaultArgs EXCEPT !.routine = r, !.batch_size = bs,
                         !.transform_batch = tb, !.indices = ix,
                         !.n_samples = o.n, !.return_mean = o.rm,
                         !.include_protein_background = bg] :
        r \in {GNE, GPFP}, bs \in 1 .. MaxBatchSize + 1,
        tb \in ScaleConditions, ix \in {PyNone, PyList(<<NCells - 1, 0>>)},
        o \in {[n |-> 1, rm |-> TRUE], [n |-> MaxSamples, rm |-> TRUE],
               [n |-> MaxSamples, rm |-> FALSE]},
        bg \in BOOLEAN}

InitBatchSize == InitWith(BatchSizeCalls)
NextBatchSize ==
    \/ GneBegin \/ GneMinibatch \/ GneReturn
    \/ GpfpBegin \/ GpfpMinibatch \/ GpfpReturn
SpecBatchSize == InitBatchSize /\ [][NextBatchSize]_vars

\* the cells of the m-th minibatch
CellsOfMinibatch(m) ==
    SubSeq(indices, (m - 1) * args.batch_size + 1,
           IF m * args.batch_size > Len(indices) THEN Len(indices)
           ELSE m * args.batch_size)
Deterministic == ~args.sample_protein_mixing /\ args.n_samples_overall = PyNone
Looping == pc \in {"loop", "done"} /\ args.routine \in {GNE, GPFP}

\* C29: with the stochastic options off, what get_normalized_expression and
\* get_protein_foreground_probability return for an index sequence is a
\* function of the cells, the conditions and the options alone, the same at
\* every minibatch size: the module is invoked once per minibatch and
\* transform_batch entry, minibatches in loader order and entries in list
\* order, and the result kept for a minibatch is computed from that
\* minibatch's cells alone, from accumulators that start at zero.
C29_BatchSizeIndependent ==
    (Deterministic /\ Looping) =>
        /\ calls = LoaderCalls(indices, pos, transform_batch)
        /\ (args.n_samples = 1 /\ args.routine = GNE) =>
              \A m \in DOMAIN scale_list_gene :
                 /\ scale_list_gene[m] =
                       ExpectedGenes(CellsOfMinibatch(m), transform_batch)
                 /\ scale_list_pro[m] =
                       ExpectedProteins(CellsOfMinibatch(m), transform_batch)
        /\ (args.n_samples = 1 /\ args.routine = GPFP) =>
              \A m \in DOMAIN py_mixings :
                 Complement(py_mixings[m], FALSE) =
                    ExpectedForeground(CellsOfMinibatch(m), transform_batch)
        /\ (pc = "done" /\ args.routine = GNE) =>
              Values(ret) = <<ExpectedGenes(indices, transform_batch),
                              ExpectedProteins(indices, transform_batch)>>
        /\ (pc = "done" /\ args.routine = GPFP) =>
              Values(ret) = ExpectedForeground(indices, transform_batch)

\* three cells in minibatches of two, two conditions: four invocations, the
\* last minibatch holding the one remaining cell
C29_Witness ==
    /\ pc = "done"
    /\ Deterministic
    /\ args.routine = GNE
    /\ args.batch_size = MaxBatchSize
    /\ Len(indices) = MaxBatchSize + 1
    /\ Len(transform_batch) = 2
    /\ Len(calls) = 4
    /\ Len(scale_list_pro) = 2
    /\ Len(scale_list_pro[2]) = 1

(***************************************************************************)
(* _get_denoised_samples on its own.                                       *)
(***************************************************************************)
DenoisedSampleCalls ==
    {[DefaultArgs EXCEPT !.routine = DEN, !.n_samples = n,
                         !.transform_batch = tb, !.indices = ix,
                         !.batch_size = bs, !.rna_size_factor = rsf] :
        n \in SampleCounts, tb \in {PyNone} \cup {PyInt(k) : k \in BatchCodes},
        ix \in {PyNone, PyList(<<NCells - 1, 0>>), PyList(<<0>>)},
        bs \in BatchSizes, rsf \in {1, 1000}}

InitDenoised == InitWith(DenoisedSampleCalls)
NextDenoised == DenBegin \/ DenSample
SpecDenoised == InitDenoised /\ [][NextDenoised]_vars

\* values a Gamma draw may take, and the two values of an indicator
GammaValues == {Rat(1, 2), RInt(3)}
Indicators == {RZero, ROne}
DenoisedReturned == pc = "done" /\ args.routine = DEN
IsGammaOf(e, rate, r) ==
    e.op = "gamma" /\ e.concentration = r /\ e.rate = RDiv(r, rate)

\* C28: _get_denoised_samples returns an array laid out as (cells, genes
\* then proteins, samples); a protein entry is 0 when its Bernoulli indicator
\* is 1 and is its gamma draw when the indicator is 0; a gene entry is its
\* gamma draw whatever any indicator is: only the columns from n_genes on are
\* masked.
C28_OnlyProteinColumnsMasked ==
    DenoisedReturned =>
        /\ Len(ret.values) = Len(indices)
        /\ \A i \in DOMAIN ret.values :
              /\ Len(ret.values[i]) = NGenes + NProteins
              /\ \A f \in DOMAIN ret.values[i] :
                    /\ Len(ret.values[i][f]) = args.n_samples
                    /\ \A s \in DOMAIN ret.values[i][f] :
                          LET e == ret.values[i][f][s]
                              c == indices[i]
                              b == args.transform_batch
                          IN  \A g \in GammaValues : \A m \in Indicators :
                                 IF f <= NGenes
                                 THEN /\ IsGammaOf(e,
                                            RMul(RInt(args.rna_size_factor),
                                                 PxScale(c, b, s, f)), PxR(f))
                                      /\ Realize(e, g, m) = g
                                 ELSE /\ IsGammaOf(e.a,
                                            PyRateFore(c, b, s, f - NGenes),
                                            PyR(f - NGenes))
                                      /\ Realize(e, g, m) =
                                            (IF m = ROne THEN RZero ELSE g)

\* a protein entry whose indicator can come out either way
C28_Witness ==
    /\ DenoisedReturned
    /\ args.n_samples = MaxSamples
    /\ Len(ret.values) = NCells
    /\ \E f \in NGenes + 1 .. NGenes + NProteins :
          /\ Support(ret.values[1][f][1].b.a.probs) = Indicators
          /\ Realize(ret.values[1][f][1], RInt(3), ROne) = RZero
          /\ Realize(ret.values[1][f][1], RInt(3), RZero) = RInt(3)
    /\ Realize(ret.values[1][1][1], RInt(3), ROne) = RInt(3)

====
